---- MODULE Spec2Model ----
(***************************************************************************)
(* Position ledger and trading-day settlement logic of the A-share agent.  *)
(*                                                                         *)
(* The ledger is the file position.jsonl of one agent signature; the      *)
(* price store is the file merged.jsonl.  Both are modelled as the        *)
(* sequence of their lines.  The agent (agent_service/agent_astock.py)    *)
(* and the tools module (tools/a_stock_data_tools.py) are configured so   *)
(* that LOG_PATH and base_log_path name the same ledger file.             *)
(*                                                                         *)
(* Calendar dates are day numbers: day 1 is Friday 2025-10-10, day 2 is   *)
(* Saturday 2025-10-11, and so on.  A date or date-time string is the     *)
(* record [day, time]; time = NoTime stands for a string "YYYY-MM-DD"     *)
(* without a time of day, and time = h for "YYYY-MM-DD hh:00:00".         *)
(*                                                                         *)
(* Specifications:                                                         *)
(*   Spec            the ledger operations of a new agent signature        *)
(*   LedgerSpec      the same on a ledger file found with any content      *)
(*   TornLedgerSpec  the reads of a ledger file holding a malformed line   *)
(*   PriceSpec       the calendar and price queries on any price file      *)
(*   DriverSpec      run_date_range with its sessions, retries and the     *)
(*                   runtime configuration file                            *)
(*   StoreSpec       the queries that scan every line of the price file,   *)
(*                   on a file that may not be readable                    *)
(*   CostSpec        calculate_trade_cost in binary floating point         *)
(*   ProfitSpec      get_yesterday_profit in binary floating point         *)
(*   ConfigSpec      get_config_value and write_config_value on a runtime  *)
(*                   configuration file in any condition                   *)
(*   ReadSpec        the reads and the settlement arithmetic side by side  *)
(*   DecisionSpec    make_decision of the decision-maker agent             *)
(*   SessionSpec     initialize and run_trading_session of an agent as     *)
(*                   the constructor leaves it                             *)
(*   InvokeSpec      _ainvoke_with_retry, with weak fairness of its steps  *)
(*   WritersSpec     write_config_value called by two processes at once    *)
(***************************************************************************)
EXTENDS Integers, Sequences, FiniteSets, TLC

VARIABLES
    position_file_exists,   \* position.jsonl exists
    position_file,          \* its lines, in file order
    merged_file_exists,     \* merged.jsonl exists
    merged_file_readable,   \* open() of merged.jsonl succeeds
    merged_file,            \* its lines, in file order
    agent,                  \* the BaseAgentAStock object: constructor arguments
                            \* and, in SessionSpec, its components
    ret,                    \* the last operation, its argument and its result
    runtime_env,            \* the runtime configuration file: key -> value
    env_file,               \* the condition of that file and of its directory
    run                     \* where the running coroutine stands: run_date_range,
                            \* _ainvoke_with_retry in InvokeSpec, or the two
                            \* calls of write_config_value in WritersSpec

vars == <<position_file_exists, position_file, merged_file_exists, merged_file_readable,
          merged_file, agent, ret, runtime_env, env_file, run>>

----------------------------------------------------------------------------
(* Bounds of the model *)

\* the calendar dates operations are called with are the days 1..MaxDay
MaxDay == 4

\* no operation appends to a ledger file that already holds MaxLines lines
MaxLines == 3

\* a ledger file found at start-up holds at most MaxInitLines snapshots
MaxInitLines == 2

\* a price file drawn at start-up holds at most MaxStoreLines lines
MaxStoreLines == 2

Days == 1..MaxDay

----------------------------------------------------------------------------
(* Dates and the calendar *)

\* marks a date string without a time of day
NoTime == -1

\* the string "YYYY-MM-DD" of day d
DateStr(d) == [day |-> d, time |-> NoTime]

\* datetime.weekday(): Monday is 0, Saturday 5, Sunday 6; day 1 is a Friday
Weekday(d) == (d + 3) % 7

\* while yesterday.weekday() >= 5: yesterday -= timedelta(days=1)
RECURSIVE SkipWeekend(_)
SkipWeekend(d) == IF Weekday(d) >= 5 THEN SkipWeekend(d - 1) ELSE d

\* the calendar fallback of get_yesterday_date: one day back skipping
\* Saturday and Sunday for a date, one hour back for a date-time
CalendarYesterday_no_skip(today_date) ==
    IF today_date.time = NoTime
    THEN [day |-> today_date.day - 1, time |-> NoTime]
    ELSE IF today_date.time >= 1
         THEN [day |-> today_date.day, time |-> today_date.time - 1]
         ELSE [day |-> today_date.day - 1, time |-> 23]

CalendarYesterday(today_date) ==
    IF today_date.time = NoTime
    THEN [day |-> SkipWeekend(today_date.day - 1), time |-> NoTime]
    ELSE IF today_date.time >= 1
         THEN [day |-> today_date.day, time |-> today_date.time - 1]
         ELSE [day |-> today_date.day - 1, time |-> 23]

\* datetime comparison; a parsed date-only string is midnight
Midnight(ts) == IF ts.time = NoTime THEN 0 ELSE ts.time

DtLess(a, b) ==
    \/ a.day < b.day
    \/ a.day = b.day /\ Midnight(a) < Midnight(b)

----------------------------------------------------------------------------
(* The price store: merged.jsonl *)

\* One line of merged.jsonl.  ok is FALSE for a line json.loads rejects,
\* object is FALSE for a line whose JSON value is not an object.
\* series is the "Time Series ..." mapping: timestamp string -> bar.
MergedLine(sym, name, series) ==
    [ok |-> TRUE, object |-> TRUE, symbol |-> sym, name |-> name, series |-> series]

\* a line that is not JSON, and a line holding JSON that is not an object
NotJsonLine == [ok |-> FALSE, object |-> FALSE, symbol |-> "", name |-> "", series |-> <<>>]
NotObjectLine == [ok |-> TRUE, object |-> FALSE, symbol |-> "", name |-> "", series |-> <<>>]

Bar(o, c) == [open |-> o, close |-> c]

\* all_timestamps of get_yesterday_date: the keys of every line's series
AllTimestamps(lines) ==
    UNION { DOMAIN lines[i].series :
              i \in { j \in DOMAIN lines : lines[j].ok /\ lines[j].object } }

\* strptime(ts_str, "%Y-%m-%d %H:%M:%S") succeeds only on a date-time string
ParsesAsDatetime(ts) == ts.time # NoTime

\* the greatest element of a non-empty set of timestamps
LatestOf(S) == CHOOSE a \in S : \A b \in S : b = a \/ DtLess(b, a)

\* strftime of the result: the input's granularity
FormatLike(ts, today_date) ==
    IF today_date.time = NoTime THEN [day |-> ts.day, time |-> NoTime] ELSE ts

get_yesterday_date(today_date, m_exists, m_lines) ==
    IF ~m_exists THEN CalendarYesterday(today_date)
    ELSE LET all_timestamps == AllTimestamps(m_lines)
             earlier == { ts \in all_timestamps :
                             ParsesAsDatetime(ts) /\ DtLess(ts, today_date) }
         IN  IF all_timestamps = {} THEN CalendarYesterday(today_date)
             ELSE IF earlier = {} THEN CalendarYesterday(today_date)
             ELSE FormatLike(LatestOf(earlier), today_date)

\* a date string that strptime rejects and that no timestamp starts with
InvalidDate == [day |-> 0, time |-> NoTime]

\* variant: weekday() <= 5, Saturday passes
CalendarTradingDay_saturday(date) ==
    date.day >= 1 /\ date.time = NoTime /\ Weekday(date.day) <= 5

\* the calendar fallback of is_trading_day:
\* strptime(date, "%Y-%m-%d").weekday() < 5, False when strptime raises
CalendarTradingDay(date) ==
    date.day >= 1 /\ date.time = NoTime /\ Weekday(date.day) < 5

\* timestamp.startswith(date) on the two strings
StartsWith(ts, date) ==
    IF date = InvalidDate THEN FALSE
    ELSE IF date.time = NoTime THEN ts.day = date.day
    ELSE ts = date

\* variant: a date found in no line is judged by the calendar
RECURSIVE ScanTradingDay_calendar(_, _, _)
ScanTradingDay_calendar(lines, i, date) ==
    IF i > Len(lines) THEN CalendarTradingDay(date)
    ELSE IF ~lines[i].ok THEN ScanTradingDay_calendar(lines, i + 1, date)
    ELSE IF ~lines[i].object THEN CalendarTradingDay(date)
    ELSE IF \E ts \in DOMAIN lines[i].series : StartsWith(ts, date) THEN TRUE
    ELSE ScanTradingDay_calendar(lines, i + 1, date)

\* The scan of is_trading_day over the lines of the file.  A line that is
\* not JSON is passed over (JSONDecodeError); a line that is JSON but not an
\* object raises at data.get, which ends the scan in the calendar fallback.
RECURSIVE ScanTradingDay(_, _, _)
ScanTradingDay(lines, i, date) ==
    IF i > Len(lines) THEN FALSE
    ELSE IF ~lines[i].ok THEN ScanTradingDay(lines, i + 1, date)
    ELSE IF ~lines[i].object THEN CalendarTradingDay(date)
    ELSE IF \E ts \in DOMAIN lines[i].series : StartsWith(ts, date) THEN TRUE
    ELSE ScanTradingDay(lines, i + 1, date)

is_trading_day(date, m_exists, m_lines) ==
    IF ~m_exists THEN CalendarTradingDay(date)
    ELSE ScanTradingDay(m_lines, 1, date)

\* Values of a bar's "1. buy price" other than a number: None stands for a
\* missing key or null, NotNumeric for a string float() rejects.
None == -1
NotNumeric == -2

\* variant: 0.0 where no number can be read
ToFloat_zero(open_val) ==
    IF open_val = None \/ open_val = NotNumeric THEN 0 ELSE open_val

\* float(open_val) if open_val is not None else None; None on ValueError
ToFloat(open_val) ==
    IF open_val = None \/ open_val = NotNumeric THEN None ELSE open_val

\* f"{sym}_price"
PriceKey(sym) == sym \o "_price"

\* The scan of get_open_prices: a line of a wanted symbol that holds a bar at
\* today_date sets the symbol's entry; every other line leaves results alone.
RECURSIVE ScanOpenPrices(_, _, _, _, _)
ScanOpenPrices(lines, i, today_date, wanted, results) ==
    IF i > Len(lines) THEN results
    ELSE LET doc == lines[i]
         IN  IF ~doc.ok \/ ~doc.object
             THEN ScanOpenPrices(lines, i + 1, today_date, wanted, results)
             ELSE IF doc.symbol \notin wanted
             THEN ScanOpenPrices(lines, i + 1, today_date, wanted, results)
             ELSE IF today_date \notin DOMAIN doc.series
             THEN ScanOpenPrices(lines, i + 1, today_date, wanted, results)
             ELSE ScanOpenPrices(lines, i + 1, today_date, wanted,
                     (PriceKey(doc.symbol) :> ToFloat(doc.series[today_date].open))
                        @@ results)

get_open_prices(today_date, symbols, m_exists, m_lines) ==
    IF ~m_exists THEN <<>>
    ELSE ScanOpenPrices(m_lines, 1, today_date, symbols, <<>>)

\* variant: a line of a wanted symbol without a bar at yesterday_date leaves
\* the results alone, as in get_open_prices
RECURSIVE ScanYesterdayPrices_keeps(_, _, _, _, _)
ScanYesterdayPrices_keeps(lines, i, yesterday_date, wanted, results) ==
    IF i > Len(lines) THEN results
    ELSE LET doc == lines[i]
         IN  IF ~doc.ok \/ ~doc.object
             THEN ScanYesterdayPrices_keeps(lines, i + 1, yesterday_date, wanted, results)
             ELSE IF doc.symbol \notin wanted
             THEN ScanYesterdayPrices_keeps(lines, i + 1, yesterday_date, wanted, results)
             ELSE IF yesterday_date \notin DOMAIN doc.series
             THEN ScanYesterdayPrices_keeps(lines, i + 1, yesterday_date, wanted, results)
             ELSE LET bar == doc.series[yesterday_date]
                      bad == bar.open = NotNumeric \/ bar.close = NotNumeric
                      key == PriceKey(doc.symbol)
                  IN  ScanYesterdayPrices_keeps(lines, i + 1, yesterday_date, wanted,
                        [buy |-> (key :> (IF bad THEN None ELSE ToFloat(bar.open)))
                                    @@ results.buy,
                         sell |-> (key :> (IF bad THEN None ELSE ToFloat(bar.close)))
                                    @@ results.sell])

\* The scan of get_yesterday_open_and_close_price: a line of a wanted symbol
\* sets both of the symbol's entries, to the bar's prices when it holds a bar
\* at yesterday_date (both None when float() rejects either) and to None
\* when it holds none.
RECURSIVE ScanYesterdayPrices(_, _, _, _, _)
ScanYesterdayPrices(lines, i, yesterday_date, wanted, results) ==
    IF i > Len(lines) THEN results
    ELSE LET doc == lines[i]
         IN  IF ~doc.ok \/ ~doc.object
             THEN ScanYesterdayPrices(lines, i + 1, yesterday_date, wanted, results)
             ELSE IF doc.symbol \notin wanted
             THEN ScanYesterdayPrices(lines, i + 1, yesterday_date, wanted, results)
             ELSE LET key == PriceKey(doc.symbol)
                  IN  IF yesterday_date \notin DOMAIN doc.series
                      THEN ScanYesterdayPrices(lines, i + 1, yesterday_date, wanted,
                             [buy |-> (key :> None) @@ results.buy,
                              sell |-> (key :> None) @@ results.sell])
                      ELSE LET bar == doc.series[yesterday_date]
                               bad == bar.open = NotNumeric \/ bar.close = NotNumeric
                           IN  ScanYesterdayPrices(lines, i + 1, yesterday_date, wanted,
                                 [buy |-> (key :> (IF bad THEN None ELSE ToFloat(bar.open)))
                                            @@ results.buy,
                                  sell |-> (key :> (IF bad THEN None ELSE ToFloat(bar.close)))
                                            @@ results.sell])

\* the pair (buy_results, sell_results); yesterday_date is what
\* get_yesterday_date gave for today_date
get_yesterday_open_and_close_price(yesterday_date, symbols, m_exists, m_lines) ==
    IF ~m_exists THEN [buy |-> <<>>, sell |-> <<>>]
    ELSE ScanYesterdayPrices(m_lines, 1, yesterday_date, symbols,
                             [buy |-> <<>>, sell |-> <<>>])

\* A line's series is stored under "Time Series (Daily)" when its keys are
\* dates and under "Time Series (60min)" when they are date-times.
DailyKeys(doc) == { ts \in DOMAIN doc.series : ts.time = NoTime }

\* sorted(list(trading_days)): the dates in ascending order
RECURSIVE SortedDays(_)
SortedDays(S) ==
    IF S = {} THEN <<>>
    ELSE LET first == CHOOSE x \in S : \A y \in S : x.day <= y.day
         IN  <<first>> \o SortedDays(S \ {first})

\* get_all_trading_days: the keys of every line's daily series; a line that
\* is no record is skipped
get_all_trading_days(m_exists, m_readable, m_lines) ==
    IF ~m_exists \/ ~m_readable THEN <<>>
    ELSE SortedDays(UNION { DailyKeys(m_lines[i]) :
                              i \in { j \in DOMAIN m_lines :
                                        m_lines[j].ok /\ m_lines[j].object } })

\* the scan of get_stock_name_mapping: a later line of a symbol overwrites
RECURSIVE ScanNames(_, _, _)
ScanNames(lines, i, name_map) ==
    IF i > Len(lines) THEN name_map
    ELSE LET doc == lines[i]
         IN  IF ~doc.ok \/ ~doc.object \/ doc.symbol = "" \/ doc.name = ""
             THEN ScanNames(lines, i + 1, name_map)
             ELSE ScanNames(lines, i + 1, (doc.symbol :> doc.name) @@ name_map)

get_stock_name_mapping(m_exists, m_readable, m_lines) ==
    IF ~m_exists \/ ~m_readable THEN <<>>
    ELSE ScanNames(m_lines, 1, <<>>)

----------------------------------------------------------------------------
(* The ledger: position.jsonl *)

EmptyPositions == <<>>

\* the initial cash of BaseAgentAStock when the constructor is given none
DefaultInitialCash == 100000

\* One line of position.jsonl.  ok is FALSE for a line json.loads rejects.
\* this_action is <<>> when the document has no "this_action" key.
Snapshot(date, id, positions, this_action) ==
    [ok |-> TRUE, date |-> date, id |-> id, positions |-> positions,
     this_action |-> this_action]

NoTradeAction == <<[action |-> "no_trade", symbol |-> "", amount |-> 0]>>

\* variant: no try/except around json.loads, a cut line is read as a record
RECURSIVE ScanDate_reads_all(_, _, _, _)
ScanDate_reads_all(lines, i, date, best) ==
    IF i > Len(lines) THEN best
    ELSE LET doc == lines[i]
         IN  IF DateStr(doc.date) = date /\ doc.id > best.id
             THEN ScanDate_reads_all(lines, i + 1, date,
                                     [id |-> doc.id, positions |-> doc.positions])
             ELSE ScanDate_reads_all(lines, i + 1, date, best)

\* One pass of get_latest_position over the file for the records of one date:
\* the first record with the greatest id wins (current_id > max_id).
RECURSIVE ScanDate(_, _, _, _)
ScanDate(lines, i, date, best) ==
    IF i > Len(lines) THEN best
    ELSE LET doc == lines[i]
         IN  IF doc.ok /\ DateStr(doc.date) = date /\ doc.id > best.id
             THEN ScanDate(lines, i + 1, date, [id |-> doc.id, positions |-> doc.positions])
             ELSE ScanDate(lines, i + 1, date, best)

\* variant: the last record of the date wins, whatever its id
LatestAtDate_last_wins(lines, date) ==
    LET idx == { i \in DOMAIN lines : lines[i].ok /\ DateStr(lines[i].date) = date }
    IN  IF idx = {} THEN [id |-> -1, positions |-> EmptyPositions]
        ELSE LET i == CHOOSE k \in idx : \A j \in idx : j <= k
             IN  [id |-> lines[i].id, positions |-> lines[i].positions]

LatestAtDate(lines, date) ==
    ScanDate(lines, 1, date, [id |-> -1, positions |-> EmptyPositions])

\* variant: record_date <= today_date
StrictlyBefore_inclusive(lines, today_date) ==
    { i \in DOMAIN lines : lines[i].ok /\ lines[i].date <= today_date.day }

\* record_date < today_date on date strings
StrictlyBefore(lines, today_date) ==
    { i \in DOMAIN lines : lines[i].ok /\ lines[i].date < today_date.day }

\* sort(key=(date, id), reverse=True)[0]: the greatest (date, id); the sort
\* is stable, so among equal keys the earliest line comes first
NewestIndex(lines, idx) ==
    CHOOSE i \in idx : \A j \in idx \ {i} :
        \/ lines[j].date < lines[i].date
        \/ lines[j].date = lines[i].date /\ lines[j].id < lines[i].id
        \/ lines[j].date = lines[i].date /\ lines[j].id = lines[i].id /\ i < j

get_today_init_position(today_date, p_exists, p_lines) ==
    IF ~p_exists THEN EmptyPositions
    ELSE LET all_records == StrictlyBefore(p_lines, today_date)
         IN  IF all_records = {} THEN EmptyPositions
             ELSE p_lines[NewestIndex(p_lines, all_records)].positions

\* variant: no third step, the scan of all earlier records
get_latest_position_two_steps(today_date, p_exists, p_lines, m_exists, m_lines) ==
    IF ~p_exists THEN [positions |-> EmptyPositions, id |-> -1]
    ELSE LET today == LatestAtDate(p_lines, today_date)
             prev == LatestAtDate(p_lines, get_yesterday_date(today_date, m_exists, m_lines))
         IN  IF today.id >= 0 /\ today.positions # EmptyPositions
             THEN [positions |-> today.positions, id |-> today.id]
             ELSE IF prev.id >= 0 /\ prev.positions # EmptyPositions
             THEN [positions |-> prev.positions, id |-> prev.id]
             ELSE [positions |-> EmptyPositions, id |-> -1]

\* variant: no first step, the records of today_date itself are not looked at
get_latest_position_skips_today(today_date, p_exists, p_lines, m_exists, m_lines) ==
    IF ~p_exists THEN [positions |-> EmptyPositions, id |-> -1]
    ELSE LET prev == LatestAtDate(p_lines, get_yesterday_date(today_date, m_exists, m_lines))
             all_records == StrictlyBefore(p_lines, today_date)
         IN  IF prev.id >= 0 /\ prev.positions # EmptyPositions
             THEN [positions |-> prev.positions, id |-> prev.id]
             ELSE IF all_records # {}
             THEN LET first == p_lines[NewestIndex(p_lines, all_records)]
                  IN  [positions |-> first.positions, id |-> first.id]
             ELSE [positions |-> EmptyPositions, id |-> -1]

get_latest_position(today_date, p_exists, p_lines, m_exists, m_lines) ==
    IF ~p_exists THEN [positions |-> EmptyPositions, id |-> -1]
    ELSE LET today == LatestAtDate(p_lines, today_date)
             prev_date == get_yesterday_date(today_date, m_exists, m_lines)
             prev == LatestAtDate(p_lines, prev_date)
             all_records == StrictlyBefore(p_lines, today_date)
         IN  IF today.id >= 0 /\ today.positions # EmptyPositions
             THEN [positions |-> today.positions, id |-> today.id]
             ELSE IF prev.id >= 0 /\ prev.positions # EmptyPositions
             THEN [positions |-> prev.positions, id |-> prev.id]
             ELSE IF all_records # {}
             THEN LET first == p_lines[NewestIndex(p_lines, all_records)]
                  IN  [positions |-> first.positions, id |-> first.id]
             ELSE [positions |-> EmptyPositions, id |-> -1]

\* variant: "id": current_action_id, without the + 1
NoTradeItem_same_id(today_date, p_exists, p_lines, m_exists, m_lines) ==
    LET latest == get_latest_position(today_date, p_exists, p_lines, m_exists, m_lines)
    IN  IF latest.positions = EmptyPositions
        THEN Snapshot(today_date.day, 0, ("CASH" :> DefaultInitialCash), NoTradeAction)
        ELSE Snapshot(today_date.day, latest.id, latest.positions, NoTradeAction)

\* variant: the all-cash base is taken whether or not a position was found
NoTradeItem_always_cash(today_date, p_exists, p_lines, m_exists, m_lines) ==
    Snapshot(today_date.day, 1, ("CASH" :> DefaultInitialCash), NoTradeAction)

\* variant: current_action_id is not reset to 0 for the all-cash base
NoTradeItem_keeps_id(today_date, p_exists, p_lines, m_exists, m_lines) ==
    LET latest == get_latest_position(today_date, p_exists, p_lines, m_exists, m_lines)
    IN  IF latest.positions = EmptyPositions
        THEN Snapshot(today_date.day, latest.id + 1, ("CASH" :> DefaultInitialCash),
                      NoTradeAction)
        ELSE Snapshot(today_date.day, latest.id + 1, latest.positions, NoTradeAction)

\* variant: "id": current_action_id + 2
NoTradeItem_plus_two(today_date, p_exists, p_lines, m_exists, m_lines) ==
    LET latest == get_latest_position(today_date, p_exists, p_lines, m_exists, m_lines)
    IN  IF latest.positions = EmptyPositions
        THEN Snapshot(today_date.day, 2, ("CASH" :> DefaultInitialCash), NoTradeAction)
        ELSE Snapshot(today_date.day, latest.id + 2, latest.positions, NoTradeAction)

\* the snapshot add_no_trade_record appends
NoTradeItem(today_date, p_exists, p_lines, m_exists, m_lines) ==
    LET latest == get_latest_position(today_date, p_exists, p_lines, m_exists, m_lines)
        current_position == IF latest.positions = EmptyPositions
                            THEN ("CASH" :> DefaultInitialCash)
                            ELSE latest.positions
        current_action_id == IF latest.positions = EmptyPositions THEN 0 ELSE latest.id
    IN  Snapshot(today_date.day, current_action_id + 1, current_position, NoTradeAction)

\* the lines of position.jsonl after add_no_trade_record
add_no_trade_record(today_date, p_exists, p_lines, m_exists, m_lines) ==
    Append(p_lines, NoTradeItem(today_date, p_exists, p_lines, m_exists, m_lines))

\* variant: no check that the file exists, the file is written over
register_agent_truncates(a, p_exists, p_lines) ==
    << Snapshot(a.init_date, 0,
                [s \in a.stock_symbols |-> 0] @@ ("CASH" :> a.initial_cash), <<>>) >>

\* variant: no check that the file exists, the file is opened for appending
register_agent_appends(a, p_exists, p_lines) ==
    Append(p_lines, Snapshot(a.init_date, 0,
                             [s \in a.stock_symbols |-> 0] @@ ("CASH" :> a.initial_cash),
                             <<>>))

\* variant: the default initial cash instead of the agent's own
register_agent_default_cash(a, p_exists, p_lines) ==
    IF p_exists THEN p_lines
    ELSE << Snapshot(a.init_date, 0,
                     [s \in a.stock_symbols |-> 0] @@ ("CASH" :> DefaultInitialCash),
                     <<>>) >>

\* variant: init_position without the "CASH" entry
register_agent_no_cash(a, p_exists, p_lines) ==
    IF p_exists THEN p_lines
    ELSE << Snapshot(a.init_date, 0, [s \in a.stock_symbols |-> 0], <<>>) >>

\* the lines of position.jsonl after register_agent
register_agent(a, p_exists, p_lines) ==
    IF p_exists THEN p_lines
    ELSE << Snapshot(a.init_date, 0,
                     [s \in a.stock_symbols |-> 0] @@ ("CASH" :> a.initial_cash),
                     <<>>) >>

----------------------------------------------------------------------------
(* The driver's reads of the ledger: BaseAgentAStock *)

\* the dates after current_date - 1 up to end_date that is_trading_day accepts
RECURSIVE TradingDatesFrom(_, _, _, _)
TradingDatesFrom(current_date, end_date, m_exists, m_lines) ==
    IF current_date > end_date THEN <<>>
    ELSE (IF is_trading_day(DateStr(current_date), m_exists, m_lines)
          THEN <<current_date>> ELSE <<>>)
         \o TradingDatesFrom(current_date + 1, end_date, m_exists, m_lines)

\* max(dates) on the date strings
MaxDate(lines) == CHOOSE d \in { lines[i].date : i \in DOMAIN lines } :
                     \A i \in DOMAIN lines : lines[i].date <= d

\* variant: the dates are listed from init_date whatever the ledger holds
get_trading_dates_from_init(init_date, end_date, p_exists, p_lines, m_exists, m_lines) ==
    IF p_exists /\ \E i \in DOMAIN p_lines : ~p_lines[i].ok
    THEN [raised |-> TRUE, dates |-> <<>>]
    ELSE [raised |-> FALSE,
          dates |-> IF end_date <= init_date THEN <<>>
                    ELSE TradingDatesFrom(init_date + 1, end_date, m_exists, m_lines)]

\* get_trading_dates: json.loads(line)["date"] of every line, with no
\* try/except, so a line that is not JSON raises out of the call
get_trading_dates(init_date, end_date, p_exists, p_lines, m_exists, m_lines) ==
    IF p_exists /\ \E i \in DOMAIN p_lines : ~p_lines[i].ok
    THEN [raised |-> TRUE, dates |-> <<>>]
    ELSE LET max_date == IF ~p_exists \/ p_lines = <<>> THEN init_date
                         ELSE MaxDate(p_lines)
         IN  [raised |-> FALSE,
              dates |-> IF end_date <= max_date THEN <<>>
                        ELSE TradingDatesFrom(max_date + 1, end_date, m_exists, m_lines)]

\* get_position_summary: the last line of the file, json.loads with no
\* try/except
get_position_summary(p_exists, p_lines) ==
    IF ~p_exists THEN [raised |-> FALSE, summary |-> [error |-> "no file"]]
    ELSE IF \E i \in DOMAIN p_lines : ~p_lines[i].ok
    THEN [raised |-> TRUE, summary |-> <<>>]
    ELSE IF p_lines = <<>> THEN [raised |-> FALSE, summary |-> [error |-> "no records"]]
    ELSE LET latest == p_lines[Len(p_lines)]
         IN  [raised |-> FALSE,
              summary |-> [latest_date |-> latest.date, positions |-> latest.positions,
                           total_records |-> Len(p_lines)]]

----------------------------------------------------------------------------
(* The driver at rest *)

\* no run_date_range under way
IdleRun ==
    [pc |-> "idle", dates |-> <<>>, idx |-> 0, attempt |-> 0, step |-> 0,
     traded |-> {}, outcome |-> "none"]

\* no runtime configuration file yet, no run under way
\* The runtime configuration file as the driver's runs find it: its directory
\* exists ("present"; "missing" when mkdir has yet to create it, "blocked"
\* when mkdir cannot), the file holds a JSON object or is absent (parsable),
\* and it can be opened for writing (writable).
HealthyEnvFile == [dir |-> "present", parsable |-> TRUE, writable |-> TRUE]

DriverAtRest == runtime_env = <<>> /\ env_file = HealthyEnvFile /\ run = IdleRun

----------------------------------------------------------------------------
(* Initial states *)

\* constructor arguments the agent is created with
AgentConfigs ==
    { [initial_cash |-> DefaultInitialCash, init_date |-> 1,
       stock_symbols |-> {"600519.SH", "601318.SH"}],
      [initial_cash |-> 50000, init_date |-> 2,
       stock_symbols |-> {"600519.SH"}] }

\* a price file keyed by daily dates (the format of generate_test_data),
\* with bars on Friday (day 1) and on a working Saturday (day 2)
DailyStore ==
    << MergedLine("600519.SH", "Moutai",
                  (DateStr(1) :> Bar(1800, 1810)) @@ (DateStr(2) :> Bar(1810, 1805))) >>

\* a price file keyed by date-time stamps, with bars on the same two days
HourlyStore ==
    << MergedLine("600519.SH", "Moutai",
                  ([day |-> 1, time |-> 10] :> Bar(1800, 1810)) @@
                  ([day |-> 2, time |-> 10] :> Bar(1810, 1805))) >>

\* <<exists, lines>> of merged.jsonl
MergedFiles == { <<FALSE, <<>>>>, <<TRUE, DailyStore>>, <<TRUE, HourlyStore>> }

InitCommon ==
    /\ \E m \in MergedFiles : merged_file_exists = m[1] /\ merged_file = m[2]
    /\ ret = [op |-> "init", date |-> 0, positions |-> EmptyPositions, id |-> -1,
              wrote |-> FALSE,
               raised |-> FALSE, value |-> <<>>]

\* a new agent signature: no ledger file yet
Init ==
    /\ position_file_exists = FALSE
    /\ position_file = <<>>
    /\ agent \in AgentConfigs
    /\ InitCommon
    /\ merged_file_readable = TRUE
    /\ DriverAtRest

\* Snapshots an existing ledger file may hold: written earlier by the
\* registration, the no-trade record or the trade tool.  Each (date, id) has
\* its own positions, so a result tells which snapshot it was read from.
PositionsOf(d, i) ==
    ("600519.SH" :> 100 * i) @@ ("CASH" :> DefaultInitialCash - 1000 * d - 10 * i)

ActionOf(i) ==
    IF i = 0 THEN <<>> ELSE <<[action |-> "buy", symbol |-> "600519.SH", amount |-> 100]>>

\* the ids of those snapshots: two ids order the snapshots of one date
InitIds == {0, 1}

InitSnapshots ==
    { Snapshot(d, i, PositionsOf(d, i), ActionOf(i)) : d \in Days, i \in InitIds }

\* ledger files in any line order, no (date, id) twice
LedgerFiles ==
    { f \in UNION { [1..n -> InitSnapshots] : n \in 0..MaxInitLines } :
        \A i, j \in DOMAIN f : i # j => <<f[i].date, f[i].id>> # <<f[j].date, f[j].id>> }

\* an agent signature whose ledger file may already exist, with any content;
\* the agent is created with an initial cash other than the default
LedgerInit ==
    /\ position_file \in LedgerFiles
    /\ position_file_exists \in BOOLEAN
    /\ position_file # <<>> => position_file_exists
    /\ agent \in { a \in AgentConfigs : a.initial_cash # DefaultInitialCash }
    /\ InitCommon
    /\ merged_file_readable = TRUE
    /\ DriverAtRest

----------------------------------------------------------------------------
(* Operations *)

RegisterAgent ==
    /\ position_file' = register_agent(agent, position_file_exists, position_file)
    /\ position_file_exists' = TRUE
    /\ ret' = [op |-> "register_agent", date |-> agent.init_date,
               positions |-> EmptyPositions, id |-> -1,
               wrote |-> ~position_file_exists,
               raised |-> FALSE, value |-> <<>>]
    /\ UNCHANGED <<merged_file_exists, merged_file_readable, merged_file, agent,
                   runtime_env, run, env_file>>

AddNoTradeRecord(d) ==
    /\ Len(position_file) < MaxLines
    /\ position_file' = add_no_trade_record(DateStr(d), position_file_exists,
                                            position_file, merged_file_exists, merged_file)
    /\ position_file_exists' = TRUE
    /\ ret' = [op |-> "add_no_trade_record", date |-> d,
               positions |-> EmptyPositions, id |-> -1, wrote |-> TRUE,
               raised |-> FALSE, value |-> <<>>]
    /\ UNCHANGED <<merged_file_exists, merged_file_readable, merged_file, agent,
                   runtime_env, run, env_file>>

GetLatestPosition(d) ==
    /\ LET r == get_latest_position(DateStr(d), position_file_exists, position_file,
                                    merged_file_exists, merged_file)
       IN  ret' = [op |-> "get_latest_position", date |-> d,
                   positions |-> r.positions, id |-> r.id, wrote |-> FALSE,
               raised |-> FALSE, value |-> <<>>]
    /\ UNCHANGED <<position_file_exists, position_file, merged_file_exists,
                   merged_file_readable, merged_file, agent, runtime_env, run, env_file>>

GetTodayInitPosition(d) ==
    /\ ret' = [op |-> "get_today_init_position", date |-> d,
               positions |-> get_today_init_position(DateStr(d), position_file_exists,
                                                     position_file),
               id |-> -1, wrote |-> FALSE,
               raised |-> FALSE, value |-> <<>>]
    /\ UNCHANGED <<position_file_exists, position_file, merged_file_exists,
                   merged_file_readable, merged_file, agent, runtime_env, run, env_file>>

Next ==
    \/ RegisterAgent
    \/ \E d \in Days : AddNoTradeRecord(d)
    \/ \E d \in Days : GetLatestPosition(d)
    \/ \E d \in Days : GetTodayInitPosition(d)

Spec == Init /\ [][Next]_vars

\* the same operations on a ledger file found at start-up
LedgerSpec == LedgerInit /\ [][Next]_vars

----------------------------------------------------------------------------
(* The calendar and price queries on a price file of any content *)

\* the lines a price file is made of: the two stores above, one line per
\* symbol and date as generate_test_data writes them (one bar without an
\* opening price, one with an opening price that is no number), a line
\* whose time series is empty, and two lines that are no record
PriceLines ==
    { DailyStore[1], HourlyStore[1],
      MergedLine("601318.SH", "Ping An", (DateStr(1) :> Bar(50, 51))),
      MergedLine("601318.SH", "Ping An", (DateStr(4) :> Bar(None, 52))),
      MergedLine("000001.SZ", "PAB", (DateStr(4) :> Bar(NotNumeric, 12))),
      MergedLine("000001.SZ", "PAB", <<>>),
      NotJsonLine, NotObjectLine }

\* no price file, or a price file of up to MaxStoreLines of those lines
PriceFiles ==
    { <<FALSE, <<>>>> } \cup
    { <<TRUE, f>> : f \in UNION { [1..n -> PriceLines] : n \in 0..MaxStoreLines } }

\* the hours used in date-time inputs
Hours == {0, 10, 11}

\* date strings the queries are called with: dates, date-times, and a string
\* that is no date
QueryDates ==
    { DateStr(d) : d \in Days } \cup
    { [day |-> d, time |-> h] : d \in Days, h \in Hours } \cup { InvalidDate }

\* the dates the price queries are called with
PriceDates == { DateStr(d) : d \in Days } \cup { [day |-> 1, time |-> 10], InvalidDate }

\* symbol lists the price queries are called with
SymbolLists == { {"600519.SH"}, {"601318.SH", "000001.SZ"}, {"600519.SH", "300750.SZ"} }

PriceInit ==
    /\ position_file_exists = FALSE
    /\ position_file = <<>>
    /\ agent = [initial_cash |-> DefaultInitialCash, init_date |-> 1,
                stock_symbols |-> {"600519.SH", "601318.SH"}]
    /\ \E m \in PriceFiles : merged_file_exists = m[1] /\ merged_file = m[2]
    /\ ret = [op |-> "init", date |-> 0, positions |-> EmptyPositions, id |-> -1,
              wrote |-> FALSE, raised |-> FALSE, value |-> <<>>]
    /\ merged_file_readable = TRUE
    /\ DriverAtRest

\* open(merged_file) raises: the file exists and cannot be read
OpenFails == merged_file_exists /\ ~merged_file_readable

\* is_trading_day catches the failure of open() and falls back to the calendar
IsTradingDay(date) ==
    /\ ret' = [op |-> "is_trading_day", date |-> date,
               positions |-> EmptyPositions, id |-> -1, wrote |-> FALSE,
               raised |-> FALSE,
               value |-> IF OpenFails THEN CalendarTradingDay(date)
                         ELSE is_trading_day(date, merged_file_exists, merged_file)]
    /\ UNCHANGED <<position_file_exists, position_file, merged_file_exists,
                   merged_file_readable, merged_file, agent, runtime_env, run, env_file>>

\* For a string that is no date the result is taken from the clock
\* (datetime.now() less one day): any date.  open() is under no try: its
\* failure leaves the function as an exception.
GetYesterdayDate(date) ==
    /\ \E now \in Days :
         ret' = [op |-> "get_yesterday_date", date |-> date,
                 positions |-> EmptyPositions, id |-> -1, wrote |-> FALSE,
                 raised |-> date # InvalidDate /\ OpenFails,
                 value |-> IF date = InvalidDate THEN DateStr(now)
                           ELSE IF OpenFails THEN InvalidDate
                           ELSE get_yesterday_date(date, merged_file_exists, merged_file)]
    /\ UNCHANGED <<position_file_exists, position_file, merged_file_exists,
                   merged_file_readable, merged_file, agent, runtime_env, run, env_file>>

\* open() is under no try
GetOpenPrices(date, symbols) ==
    /\ ret' = [op |-> "get_open_prices", date |-> date,
               positions |-> EmptyPositions, id |-> -1, wrote |-> FALSE,
               raised |-> OpenFails,
               value |-> [symbols |-> symbols,
                          prices |-> IF OpenFails THEN <<>>
                                     ELSE get_open_prices(date, symbols, merged_file_exists,
                                                          merged_file)]]
    /\ UNCHANGED <<position_file_exists, position_file, merged_file_exists,
                   merged_file_readable, merged_file, agent, runtime_env, run, env_file>>

PriceNext ==
    \/ \E date \in QueryDates : IsTradingDay(date)
    \/ \E date \in QueryDates : GetYesterdayDate(date)
    \/ \E date \in PriceDates, symbols \in SymbolLists : GetOpenPrices(date, symbols)

PriceSpec == PriceInit /\ [][PriceNext]_vars

----------------------------------------------------------------------------
(* Every query of the price file, on a file that may not be readable *)

\* a price file of PriceFiles, or one that exists and that open() rejects
StoreInit ==
    /\ position_file_exists = FALSE
    /\ position_file = <<>>
    /\ agent = [initial_cash |-> DefaultInitialCash, init_date |-> 1,
                stock_symbols |-> {"600519.SH", "601318.SH"}]
    /\ \/ /\ \E m \in PriceFiles : merged_file_exists = m[1] /\ merged_file = m[2]
          /\ merged_file_readable = TRUE
       \/ /\ merged_file_exists = TRUE /\ merged_file = DailyStore
          /\ merged_file_readable = FALSE
    /\ ret = [op |-> "init", date |-> 0, positions |-> EmptyPositions, id |-> -1,
              wrote |-> FALSE, raised |-> FALSE, value |-> <<>>]
    /\ DriverAtRest

\* yesterday_date is taken from get_yesterday_date, whose open() is under no
\* try, and so is the open() of the scan
GetYesterdayOpenAndClosePrice(date, symbols) ==
    /\ \E now \in Days :
         LET yesterday_date ==
               IF date = InvalidDate THEN DateStr(now)
               ELSE get_yesterday_date(date, merged_file_exists, merged_file)
         IN  ret' = [op |-> "get_yesterday_open_and_close_price", date |-> date,
                     positions |-> EmptyPositions, id |-> -1, wrote |-> FALSE,
                     raised |-> OpenFails,
                     value |-> IF OpenFails
                               THEN [symbols |-> symbols, yesterday_date |-> InvalidDate,
                                     buy |-> <<>>, sell |-> <<>>]
                               ELSE [symbols |-> symbols,
                                     yesterday_date |-> yesterday_date] @@
                                    get_yesterday_open_and_close_price(
                                        yesterday_date, symbols, merged_file_exists,
                                        merged_file)]
    /\ UNCHANGED <<position_file_exists, position_file, merged_file_exists,
                   merged_file_readable, merged_file, agent, runtime_env, run, env_file>>

GetStockNameMapping ==
    /\ ret' = [op |-> "get_stock_name_mapping", date |-> InvalidDate,
               positions |-> EmptyPositions, id |-> -1, wrote |-> FALSE,
               raised |-> FALSE,
               value |-> get_stock_name_mapping(merged_file_exists, merged_file_readable,
                                                merged_file)]
    /\ UNCHANGED <<position_file_exists, position_file, merged_file_exists,
                   merged_file_readable, merged_file, agent, runtime_env, run, env_file>>

GetAllTradingDays ==
    /\ ret' = [op |-> "get_all_trading_days", date |-> InvalidDate,
               positions |-> EmptyPositions, id |-> -1, wrote |-> FALSE,
               raised |-> FALSE,
               value |-> get_all_trading_days(merged_file_exists, merged_file_readable,
                                              merged_file)]
    /\ UNCHANGED <<position_file_exists, position_file, merged_file_exists,
                   merged_file_readable, merged_file, agent, runtime_env, run, env_file>>

StoreNext ==
    \/ \E date \in PriceDates : IsTradingDay(date)
    \/ \E date \in PriceDates : GetYesterdayDate(date)
    \/ \E date \in PriceDates, symbols \in SymbolLists : GetOpenPrices(date, symbols)
    \/ \E date \in PriceDates, symbols \in SymbolLists :
          GetYesterdayOpenAndClosePrice(date, symbols)
    \/ GetStockNameMapping
    \/ GetAllTradingDays

StoreSpec == StoreInit /\ [][StoreNext]_vars

----------------------------------------------------------------------------
(* The reads of a ledger file that holds a line cut short *)

\* What an append that was cut short leaves in the file: the text of a
\* snapshot without its end, which json.loads rejects.  The fields are those
\* a reader would take from it if it read the line as a record.
TornSnapshot(d) == [Snapshot(d, 2, PositionsOf(d, 2), ActionOf(2)) EXCEPT !.ok = FALSE]

\* the dates of the cut lines
TornDays == {2, 3}

InsertAt(f, k, line) == SubSeq(f, 1, k) \o <<line>> \o SubSeq(f, k + 1, Len(f))

\* the ledger files above with one cut line before, between or after their
\* snapshots
TornLedgerFiles ==
    UNION { { InsertAt(f, k, TornSnapshot(d)) : k \in 0..Len(f), d \in TornDays } :
              f \in { g \in LedgerFiles : g # <<>> } }

TornLedgerInit ==
    /\ position_file \in LedgerFiles \cup TornLedgerFiles
    /\ position_file_exists \in BOOLEAN
    /\ position_file # <<>> => position_file_exists
    /\ agent \in { a \in AgentConfigs : a.initial_cash # DefaultInitialCash }
    /\ \E m \in { <<FALSE, <<>>>>, <<TRUE, HourlyStore>> } :
          merged_file_exists = m[1] /\ merged_file = m[2]
    /\ ret = [op |-> "init", date |-> 0, positions |-> EmptyPositions, id |-> -1,
              wrote |-> FALSE, raised |-> FALSE, value |-> <<>>]
    /\ merged_file_readable = TRUE
    /\ DriverAtRest

\* get_trading_dates registers the agent when the ledger file is missing
GetTradingDates(end_date) ==
    /\ LET r == get_trading_dates(agent.init_date, end_date, position_file_exists,
                                  position_file, merged_file_exists, merged_file)
       IN  ret' = [op |-> "get_trading_dates", date |-> end_date,
                   positions |-> EmptyPositions, id |-> -1,
                   wrote |-> ~position_file_exists,
                   raised |-> r.raised, value |-> r.dates]
    /\ position_file' = register_agent(agent, position_file_exists, position_file)
    /\ position_file_exists' = TRUE
    /\ UNCHANGED <<merged_file_exists, merged_file_readable, merged_file, agent,
                   runtime_env, run, env_file>>

GetPositionSummary ==
    /\ LET r == get_position_summary(position_file_exists, position_file)
       IN  ret' = [op |-> "get_position_summary", date |-> 0,
                   positions |-> EmptyPositions, id |-> -1, wrote |-> FALSE,
                   raised |-> r.raised, value |-> r.summary]
    /\ UNCHANGED <<position_file_exists, position_file, merged_file_exists,
                   merged_file_readable, merged_file, agent, runtime_env, run, env_file>>

ReadNext ==
    \/ \E d \in Days : GetLatestPosition(d)
    \/ \E d \in Days : GetTodayInitPosition(d)
    \/ \E d \in Days : GetTradingDates(d)
    \/ GetPositionSummary

TornLedgerSpec == TornLedgerInit /\ [][ReadNext]_vars

----------------------------------------------------------------------------
(* The driver: run_date_range, run_with_retry, run_trading_session *)

\* the agent is built with max_steps = 2 and max_retries = 2
max_steps == 2
max_retries == 2

\* variant: the write is lost
write_config_value_lost(key, value, env) == env

\* write_config_value: the document is loaded, the key set, the document
\* written back
write_config_value(key, value, env) == (key :> value) @@ env

\* "if if_trade:" on get_config_value("IF_TRADE"): None when the key is in
\* neither the file nor the environment
if_trade(env) == "IF_TRADE" \in DOMAIN env /\ env["IF_TRADE"] = TRUE

\* the ledger after _handle_trading_result
HandledLedger(today_date, env, p_exists, p_lines, m_exists, m_lines) ==
    IF if_trade(env) THEN p_lines
    ELSE add_no_trade_record(today_date, p_exists, p_lines, m_exists, m_lines)

\* a price file with bars on every day, keyed by date-time stamps
FullStore ==
    << MergedLine("600519.SH", "Moutai",
                  [ts \in { [day |-> d, time |-> 10] : d \in Days } |-> Bar(1800, 1810)]) >>

\* a new agent signature, no runtime configuration file
DriverInit ==
    /\ position_file_exists = FALSE
    /\ position_file = <<>>
    /\ agent \in AgentConfigs
    /\ \E m \in { <<FALSE, <<>>>>, <<TRUE, FullStore>> } :
          merged_file_exists = m[1] /\ merged_file = m[2]
    /\ ret = [op |-> "init", date |-> 0, positions |-> EmptyPositions, id |-> -1,
              wrote |-> FALSE, raised |-> FALSE, value |-> <<>>]
    /\ merged_file_readable = TRUE
    /\ DriverAtRest

\* run_date_range up to the start of the first session: the trading dates
\* are listed (which registers a new agent), TODAY_DATE and SIGNATURE are
\* written and run_with_retry begins its first attempt
RunDateRange(end_date) ==
    /\ run.pc = "idle"
    /\ LET r == get_trading_dates(agent.init_date, end_date, position_file_exists,
                                  position_file, merged_file_exists, merged_file)
       IN  /\ ret' = [op |-> "run_date_range", date |-> end_date,
                      positions |-> EmptyPositions, id |-> -1,
                      wrote |-> ~position_file_exists,
                      raised |-> r.raised, value |-> r.dates]
           /\ IF r.raised
              THEN run' = [IdleRun EXCEPT !.outcome = "failed"] /\ UNCHANGED runtime_env
              ELSE IF r.dates = <<>>
              THEN run' = [IdleRun EXCEPT !.outcome = "no_dates"] /\ UNCHANGED runtime_env
              ELSE /\ run' = [pc |-> "session", dates |-> r.dates, idx |-> 1,
                              attempt |-> 1, step |-> 0, traded |-> {},
                              outcome |-> "running"]
                   /\ runtime_env' = write_config_value("SIGNATURE", "sig",
                                        write_config_value("TODAY_DATE", r.dates[1],
                                                           runtime_env))
    /\ position_file' = register_agent(agent, position_file_exists, position_file)
    /\ position_file_exists' = TRUE
    /\ UNCHANGED <<merged_file_exists, merged_file_readable, merged_file, agent, env_file>>

\* variant: run_with_retry starts the session again after every failure
AgentStep_retries_on(outcome) ==
    /\ run.pc = "session"
    /\ run' = IF outcome = "raise"
              THEN [run EXCEPT !.attempt = @ + 1, !.step = 0]
              ELSE IF outcome = "stop" \/ run.step + 1 = max_steps
                   THEN [run EXCEPT !.pc = "handle", !.step = @ + 1]
                   ELSE [run EXCEPT !.step = @ + 1]
    /\ run'.attempt <= max_retries + 1
    /\ ret' = [op |-> "agent_step", date |-> run.dates[run.idx],
               positions |-> EmptyPositions, id |-> -1, wrote |-> FALSE,
               raised |-> (outcome = "raise"), value |-> outcome]
    /\ UNCHANGED <<position_file_exists, position_file, merged_file_exists,
                   merged_file_readable, merged_file, agent, runtime_env, env_file>>

\* variant: the stop signal is not looked for
AgentStep_ignores_stop(outcome) ==
    /\ run.pc = "session"
    /\ run' = IF outcome = "raise"
              THEN IF run.attempt = max_retries
                   THEN [run EXCEPT !.pc = "idle", !.outcome = "failed"]
                   ELSE [run EXCEPT !.attempt = @ + 1, !.step = 0]
              ELSE IF run.step + 1 = max_steps
                   THEN [run EXCEPT !.pc = "handle", !.step = @ + 1]
                   ELSE [run EXCEPT !.step = @ + 1]
    /\ ret' = [op |-> "agent_step", date |-> run.dates[run.idx],
               positions |-> EmptyPositions, id |-> -1, wrote |-> FALSE,
               raised |-> (outcome = "raise"), value |-> outcome]
    /\ UNCHANGED <<position_file_exists, position_file, merged_file_exists,
                   merged_file_readable, merged_file, agent, runtime_env, env_file>>

\* One pass of the step loop of run_trading_session.  _ainvoke_with_retry
\* either returns a response, with or without the stop signal, or raises after
\* its last attempt; an exception ends the attempt of run_with_retry, which
\* starts the session again or, after max_retries attempts, raises out of
\* run_date_range.
AgentStep(outcome) ==
    /\ run.pc = "session"
    /\ run' = IF outcome = "raise"
              THEN IF run.attempt = max_retries
                   THEN [run EXCEPT !.pc = "idle", !.outcome = "failed"]
                   ELSE [run EXCEPT !.attempt = @ + 1, !.step = 0]
              ELSE IF outcome = "stop" \/ run.step + 1 = max_steps
                   THEN [run EXCEPT !.pc = "handle", !.step = @ + 1]
                   ELSE [run EXCEPT !.step = @ + 1]
    /\ ret' = [op |-> "agent_step", date |-> run.dates[run.idx],
               positions |-> EmptyPositions, id |-> -1, wrote |-> FALSE,
               raised |-> (outcome = "raise"), value |-> outcome]
    /\ UNCHANGED <<position_file_exists, position_file, merged_file_exists,
                   merged_file_readable, merged_file, agent, runtime_env, env_file>>

\* the positions after a purchase of 100 shares for 1000
TradedPositions(positions) ==
    [k \in DOMAIN positions |->
        IF k = "CASH" THEN positions[k] - 1000
        ELSE IF k = "600519.SH" THEN positions[k] + 100
        ELSE positions[k]]

\* The trade tool called by the decision-maker in a step of the session: it
\* appends the snapshot of the trade for the date in TODAY_DATE, with the id
\* after the latest, and sets IF_TRADE.
TradeTool ==
    /\ run.pc = "session"
    /\ Len(position_file) < MaxLines
    /\ LET today_date == DateStr(runtime_env["TODAY_DATE"])
           latest == get_latest_position(today_date, position_file_exists, position_file,
                                         merged_file_exists, merged_file)
       IN  /\ latest.positions # EmptyPositions
           /\ position_file' =
                 Append(position_file,
                        Snapshot(today_date.day, latest.id + 1,
                                 TradedPositions(latest.positions),
                                 <<[action |-> "buy", symbol |-> "600519.SH",
                                    amount |-> 100]>>))
           /\ run' = [run EXCEPT !.traded = @ \cup {today_date.day}]
           /\ ret' = [op |-> "trade", date |-> today_date.day,
                      positions |-> EmptyPositions, id |-> -1, wrote |-> TRUE,
                      raised |-> FALSE, value |-> <<>>]
    /\ runtime_env' = write_config_value("IF_TRADE", TRUE, runtime_env)
    /\ UNCHANGED <<position_file_exists, merged_file_exists, merged_file_readable,
                   merged_file, agent, env_file>>

\* variant: the write of IF_TRADE after add_no_trade_record raises, and
\* run_with_retry starts the session again
HandleTradingResult_raises_after_append ==
    /\ run.pc = "handle"
    /\ if_trade(runtime_env) \/ Len(position_file) < MaxLines
    /\ position_file' = HandledLedger(DateStr(run.dates[run.idx]), runtime_env,
                                      position_file_exists, position_file,
                                      merged_file_exists, merged_file)
    /\ ret' = [op |-> "_handle_trading_result", date |-> run.dates[run.idx],
               positions |-> EmptyPositions, id |-> -1,
               wrote |-> ~if_trade(runtime_env),
               raised |-> ~if_trade(runtime_env), value |-> <<>>]
    /\ IF ~if_trade(runtime_env)
       THEN /\ run' = IF run.attempt = max_retries
                      THEN [run EXCEPT !.pc = "idle", !.outcome = "failed"]
                      ELSE [run EXCEPT !.pc = "session", !.attempt = @ + 1, !.step = 0]
            /\ UNCHANGED runtime_env
       ELSE IF run.idx < Len(run.dates)
       THEN /\ run' = [run EXCEPT !.pc = "session", !.idx = @ + 1, !.attempt = 1,
                                  !.step = 0]
            /\ runtime_env' =
                  write_config_value("SIGNATURE", "sig",
                     write_config_value("TODAY_DATE", run.dates[run.idx + 1],
                        write_config_value("IF_TRADE", FALSE, runtime_env)))
       ELSE /\ run' = [run EXCEPT !.pc = "idle", !.outcome = "completed"]
            /\ runtime_env' = write_config_value("IF_TRADE", FALSE, runtime_env)
    /\ UNCHANGED <<position_file_exists, merged_file_exists, merged_file_readable,
                   merged_file, agent, env_file>>

\* _handle_trading_result at the end of the step loop, and the return to
\* run_date_range: the next date's session is started, or the run ends
HandleTradingResult ==
    /\ run.pc = "handle"
    /\ if_trade(runtime_env) \/ Len(position_file) < MaxLines
    /\ position_file' = HandledLedger(DateStr(run.dates[run.idx]), runtime_env,
                                      position_file_exists, position_file,
                                      merged_file_exists, merged_file)
    /\ ret' = [op |-> "_handle_trading_result", date |-> run.dates[run.idx],
               positions |-> EmptyPositions, id |-> -1,
               wrote |-> ~if_trade(runtime_env),
               raised |-> FALSE, value |-> <<>>]
    /\ IF run.idx < Len(run.dates)
       THEN /\ run' = [run EXCEPT !.pc = "session", !.idx = @ + 1, !.attempt = 1,
                                  !.step = 0]
            /\ runtime_env' =
                  write_config_value("SIGNATURE", "sig",
                     write_config_value("TODAY_DATE", run.dates[run.idx + 1],
                        write_config_value("IF_TRADE", FALSE, runtime_env)))
       ELSE /\ run' = [run EXCEPT !.pc = "idle", !.outcome = "completed"]
            /\ runtime_env' = write_config_value("IF_TRADE", FALSE, runtime_env)
    /\ UNCHANGED <<position_file_exists, merged_file_exists, merged_file_readable,
                   merged_file, agent, env_file>>

DriverNext ==
    \/ \E end_date \in Days : RunDateRange(end_date)
    \/ \E outcome \in {"continue", "stop", "raise"} : AgentStep(outcome)
    \/ TradeTool
    \/ HandleTradingResult

DriverSpec == DriverInit /\ [][DriverNext]_vars

----------------------------------------------------------------------------
(* Python floats: IEEE 754 binary64, round to nearest, ties to even *)

\* A float v >= 0 is the record [m, e] with v = (the integer whose bits are m,
\* least significant first) * 2^e, m odd; 0.0 is [m |-> <<>>, e |-> 0].
\* Integers of any length are sequences of bits, least significant first;
\* the arithmetic on them is done on limbs of LimbBits bits.
LimbBits == 10
Base == 2 ^ LimbBits

Zeros(k) == [i \in 1..k |-> 0]

\* without the zero bits at the most significant end
Trim(bits) ==
    LET ones == { i \in DOMAIN bits : bits[i] = 1 }
    IN  IF ones = {} THEN <<>>
        ELSE SubSeq(bits, 1, CHOOSE i \in ones : \A j \in ones : j <= i)

\* the bits of an integer 0 <= n < 2^31
BitsOf(n) == Trim([i \in 1..31 |-> (n \div 2 ^ (i - 1)) % 2])

BitAt(bits, i) == IF i <= Len(bits) THEN bits[i] ELSE 0

\* the limbs of a sequence of bits, and back
LimbsOfBits(bits) ==
    [j \in 1..((Len(bits) + LimbBits - 1) \div LimbBits) |->
        LET b == LimbBits * (j - 1)
        IN  BitAt(bits, b + 1) + 2 * BitAt(bits, b + 2) + 4 * BitAt(bits, b + 3)
            + 8 * BitAt(bits, b + 4) + 16 * BitAt(bits, b + 5)
            + 32 * BitAt(bits, b + 6) + 64 * BitAt(bits, b + 7)
            + 128 * BitAt(bits, b + 8) + 256 * BitAt(bits, b + 9)
            + 512 * BitAt(bits, b + 10)]

BitsOfLimbs(limbs) ==
    Trim([i \in 1..(LimbBits * Len(limbs)) |->
            (limbs[(i - 1) \div LimbBits + 1] \div 2 ^ ((i - 1) % LimbBits)) % 2])

\* limbs * x + carry, for an integer x < 2^20
RECURSIVE MulLimbs(_, _, _)
MulLimbs(limbs, x, carry) ==
    IF limbs = <<>> THEN (IF carry = 0 THEN <<>> ELSE MulLimbs(<<carry>>, 1, 0))
    ELSE LET t == limbs[1] * x + carry
         IN  <<t % Base>> \o MulLimbs(Tail(limbs), x, t \div Base)

MulBits(bits, x) == BitsOfLimbs(MulLimbs(LimbsOfBits(bits), x, 0))

\* a + b + carry
RECURSIVE AddLimbs(_, _, _)
AddLimbs(a, b, carry) ==
    IF a = <<>> /\ b = <<>> THEN (IF carry = 0 THEN <<>> ELSE <<carry>>)
    ELSE LET x == IF a = <<>> THEN 0 ELSE a[1]
             y == IF b = <<>> THEN 0 ELSE b[1]
             t == x + y + carry
         IN  <<t % Base>> \o AddLimbs(IF a = <<>> THEN <<>> ELSE Tail(a),
                                      IF b = <<>> THEN <<>> ELSE Tail(b), t \div Base)

AddBits(a, b) == BitsOfLimbs(AddLimbs(LimbsOfBits(a), LimbsOfBits(b), 0))

\* a - b - borrow, for a >= b
RECURSIVE SubLimbs(_, _, _)
SubLimbs(a, b, borrow) ==
    IF a = <<>> THEN <<>>
    ELSE LET y == IF b = <<>> THEN 0 ELSE b[1]
             t == a[1] - y - borrow
         IN  <<(t + Base) % Base>> \o
             SubLimbs(Tail(a), IF b = <<>> THEN <<>> ELSE Tail(b),
                      IF t < 0 THEN 1 ELSE 0)

SubBits(a, b) == BitsOfLimbs(SubLimbs(LimbsOfBits(a), LimbsOfBits(b), 0))

\* a < b, for bits without leading zeros
LessBits(a, b) ==
    \/ Len(a) < Len(b)
    \/ /\ Len(a) = Len(b)
       /\ \E i \in DOMAIN a :
             /\ a[i] < b[i]
             /\ \A j \in (i + 1)..Len(a) : a[j] = b[j]

\* the quotient and remainder of limbs by the integer q <= 10^6, most
\* significant limb first: long division
RECURSIVE DivLimbs(_, _, _)
DivLimbs(limbs, q, rem) ==
    IF limbs = <<>> THEN [quot |-> <<>>, rem |-> rem]
    ELSE LET r == Base * rem + limbs[Len(limbs)]
             d == DivLimbs(SubSeq(limbs, 1, Len(limbs) - 1), q, r % q)
         IN  [quot |-> d.quot \o <<r \div q>>, rem |-> d.rem]

DivBits(bits, q) ==
    LET d == DivLimbs(LimbsOfBits(bits), q, 0)
    IN  [quot |-> BitsOfLimbs(d.quot), rem |-> d.rem]

\* the record of the value bits * 2^e
Canonical(bits, e) ==
    LET b == Trim(bits)
        ones == { i \in DOMAIN b : b[i] = 1 }
        low == CHOOSE i \in ones : \A j \in ones : i <= j
    IN  IF b = <<>> THEN [m |-> <<>>, e |-> 0]
        ELSE [m |-> SubSeq(b, low, Len(b)), e |-> e + low - 1]

\* the significand of a binary64 has 53 bits
Precision == 53

\* The float nearest to bits * 2^e (+ something below the last bit when
\* sticky): the bits beyond Precision are dropped and the rest is rounded to
\* nearest, a tie to the even significand.
RoundToFloat(bits0, e, sticky0) ==
    LET bits == Trim(bits0)
        k == Len(bits) - Precision
    IN  IF k <= 0 THEN Canonical(bits, e)
        ELSE LET kept == SubSeq(bits, k + 1, Len(bits))
                 guard == bits[k]
                 sticky == sticky0 \/ \E i \in 1..(k - 1) : bits[i] = 1
                 up == guard = 1 /\ (sticky \/ kept[1] = 1)
             IN  Canonical(IF up THEN AddBits(kept, <<1>>) ELSE kept, e + k)

\* float(n) of an integer n
FloatOfInt(n) == RoundToFloat(BitsOf(n), 0, FALSE)

\* the number of bits a decimal literal is expanded to before it is rounded
LiteralBits == 90

\* the float nearest to bits / q
FloatOfRatio(bits, q) ==
    LET d == DivBits(Zeros(LiteralBits) \o bits, q)
    IN  RoundToFloat(d.quot, 0 - LiteralBits, d.rem # 0)

\* the float of a decimal literal p/q: the nearest float
FloatOfDecimal(p, q) == FloatOfRatio(BitsOf(p), q)

\* n * c for an integer n and a float c: float(n) * c, the exact product rounded
IntTimesFloat(n, c) == RoundToFloat(MulBits(c.m, n), c.e, FALSE)

MinExp(a, b) == IF a.e < b.e THEN a.e ELSE b.e

\* the bits of a at the exponent e <= a.e
AlignedBits(a, e) == IF a.m = <<>> THEN <<>> ELSE Zeros(a.e - e) \o a.m

\* a + b
FloatAdd(a, b) ==
    LET e == MinExp(a, b)
    IN  RoundToFloat(AddBits(AlignedBits(a, e), AlignedBits(b, e)), e, FALSE)

\* a < b
FloatLess(a, b) ==
    LET e == MinExp(a, b)
    IN  LessBits(AlignedBits(a, e), AlignedBits(b, e))

\* max(a, b)
FloatMax(a, b) == IF FloatLess(a, b) THEN b ELSE a

\* a - b, for a >= b
FloatSub(a, b) ==
    LET e == MinExp(a, b)
    IN  RoundToFloat(SubBits(AlignedBits(a, e), AlignedBits(b, e)), e, FALSE)

\* variant: no rounding to decimals
RoundDecimals_none(x) == x

\* round(x, 4): the exact value of x is rounded to four decimals, a tie to
\* the even digit, and the float nearest to that decimal is returned
RoundDecimals(x) ==
    IF x.m = <<>> \/ x.e >= 0 THEN x
    ELSE LET scaled == MulBits(x.m, 10000)
             k == 0 - x.e
             whole == IF Len(scaled) > k THEN SubSeq(scaled, k + 1, Len(scaled))
                      ELSE <<>>
             guard == BitAt(scaled, k)
             sticky == \E i \in 1..(k - 1) : BitAt(scaled, i) = 1
             up == guard = 1 /\ (sticky \/ BitAt(scaled, k + 1) = 1)
         IN  FloatOfRatio(IF up THEN AddBits(whole, <<1>>) ELSE whole, 10000)

----------------------------------------------------------------------------
(* Trade costs *)

\* symbol.endswith(suffix)
EndsWith(s, suffix) ==
    Len(s) >= Len(suffix) /\ SubSeq(s, Len(s) - Len(suffix) + 1, Len(s)) = suffix

\* the literals of calculate_trade_cost
commission_rate == FloatOfDecimal(3, 10000)
min_commission == FloatOfDecimal(5, 1)
stamp_tax_rate == FloatOfDecimal(1, 1000)
transfer_fee_rate == FloatOfDecimal(1, 100000)
FloatZero == FloatOfInt(0)

\* price and amount are integers: total_value is their exact product
calculate_trade_cost(symbol, price, amount, direction) ==
    LET total_value == price * amount
        commission == FloatMax(IntTimesFloat(total_value, commission_rate),
                               min_commission)
        stamp_tax == IF direction = "sell"
                     THEN IntTimesFloat(total_value, stamp_tax_rate)
                     ELSE FloatZero
        transfer_fee == IF EndsWith(symbol, ".SH")
                        THEN IntTimesFloat(total_value, transfer_fee_rate)
                        ELSE FloatZero
    IN  [commission |-> commission,
         stamp_tax |-> stamp_tax,
         transfer_fee |-> transfer_fee,
         total_cost |-> FloatAdd(FloatAdd(commission, stamp_tax), transfer_fee)]

\* the trades whose cost is asked for: prices in yuan, amounts in lots of 100
MaxLots == 6
CostSymbols == {"600519.SH", "000001.SZ"}
CostPrices == {10, 45, 150, 1000, 1800}
CostAmounts == { 100 * k : k \in 1..MaxLots }
Directions == {"buy", "sell"}

CostInit ==
    /\ position_file_exists = FALSE
    /\ position_file = <<>>
    /\ merged_file_exists = FALSE
    /\ merged_file = <<>>
    /\ agent = [initial_cash |-> DefaultInitialCash, init_date |-> 1,
                stock_symbols |-> {"600519.SH", "601318.SH"}]
    /\ ret = [op |-> "init", date |-> 0, positions |-> EmptyPositions, id |-> -1,
              wrote |-> FALSE, raised |-> FALSE, value |-> <<>>]
    /\ merged_file_readable = TRUE
    /\ DriverAtRest

CalculateTradeCost(symbol, price, amount, direction) ==
    /\ ret' = [op |-> "calculate_trade_cost", date |-> 0,
               positions |-> EmptyPositions, id |-> -1, wrote |-> FALSE,
               raised |-> FALSE,
               value |-> [symbol |-> symbol, price |-> price, amount |-> amount,
                          direction |-> direction,
                          cost |-> calculate_trade_cost(symbol, price, amount,
                                                        direction)]]
    /\ UNCHANGED <<position_file_exists, position_file, merged_file_exists,
                   merged_file_readable, merged_file, agent, runtime_env, run, env_file>>

CostNext ==
    \E symbol \in CostSymbols, price \in CostPrices, amount \in CostAmounts,
       direction \in Directions :
          CalculateTradeCost(symbol, price, amount, direction)

CostSpec == CostInit /\ [][CostNext]_vars

----------------------------------------------------------------------------
(* The profit of the previous trading day *)

\* A price is a number of cents, read as the float of the decimal with two
\* places, or None.  A profit is a signed float: [neg, mag].
PriceFloat(cents) == FloatOfDecimal(cents, 100)

ZeroProfit == [neg |-> FALSE, mag |-> FloatZero]

\* round((sell_price - buy_price) * position_weight, 4)
RoundedProfit(buy_price, sell_price, position_weight) ==
    LET b == PriceFloat(buy_price)
        s == PriceFloat(sell_price)
        diff == IF FloatLess(s, b) THEN FloatSub(b, s) ELSE FloatSub(s, b)
    IN  [neg |-> FloatLess(s, b),
         mag |-> RoundDecimals(IntTimesFloat(position_weight, diff))]

\* dict.get(key) and dict.get(key, default)
Get(dict, key, default) == IF key \in DOMAIN dict THEN dict[key] ELSE default

get_yesterday_profit(buy_prices, sell_prices, init_position, stock_symbols) ==
    [symbol \in stock_symbols |->
        LET buy_price == Get(buy_prices, PriceKey(symbol), None)
            sell_price == Get(sell_prices, PriceKey(symbol), None)
            position_weight == Get(init_position, symbol, 0)
        IN  IF buy_price # None /\ sell_price # None /\ position_weight > 0
            THEN RoundedProfit(buy_price, sell_price, position_weight)
            ELSE ZeroProfit]

\* the arguments the profit is asked for: price mappings as
\* get_yesterday_open_and_close_price returns them (a key may be missing, a
\* value may be None), and the positions of a snapshot
ProfitSymbols == {"600519.SH", "601318.SH"}
BuyCents(sym) == IF sym = "600519.SH" THEN {None, 1001, 180000} ELSE {4500}
SellCents(sym) == IF sym = "600519.SH" THEN {None, 1002, 179050} ELSE {4533}
HeldAmounts(sym) == IF sym = "600519.SH" THEN {-100, 0, 100, 300} ELSE {200}

\* one value of Values(sym) for every symbol of S
Choices(S, Values(_)) ==
    { g \in [S -> UNION { Values(sym) : sym \in S }] :
         \A sym \in S : g[sym] \in Values(sym) }

\* the mapping g with the keys f"{symbol}_price"
KeyedByPrice(g) ==
    [k \in { PriceKey(sym) : sym \in DOMAIN g } |->
        g[CHOOSE sym \in DOMAIN g : PriceKey(sym) = k]]

BuyMaps ==
    UNION { { KeyedByPrice(g) : g \in Choices(S, BuyCents) } : S \in SUBSET ProfitSymbols }
SellMaps ==
    UNION { { KeyedByPrice(g) : g \in Choices(S, SellCents) } : S \in SUBSET ProfitSymbols }
HeldPositions ==
    UNION { { ("CASH" :> 100000) @@ g : g \in Choices(S, HeldAmounts) } :
            S \in SUBSET ProfitSymbols }
ProfitSymbolLists == (SUBSET ProfitSymbols) \ {{}}

\* the arguments of the call to come, drawn from those sets
ProfitInit ==
    /\ position_file_exists = FALSE
    /\ position_file = <<>>
    /\ merged_file_exists = FALSE
    /\ merged_file = <<>>
    /\ agent = [initial_cash |-> DefaultInitialCash, init_date |-> 1,
                stock_symbols |-> {"600519.SH", "601318.SH"}]
    /\ \E buy \in BuyMaps, sell \in SellMaps, held \in HeldPositions,
          symbols \in ProfitSymbolLists :
          ret = [op |-> "init", date |-> 0, positions |-> EmptyPositions, id |-> -1,
                 wrote |-> FALSE, raised |-> FALSE,
                 value |-> [yesterday_buy_prices |-> buy,
                            yesterday_sell_prices |-> sell,
                            yesterday_init_position |-> held,
                            stock_symbols |-> symbols,
                            profit |-> <<>>]]
    /\ merged_file_readable = TRUE
    /\ DriverAtRest

GetYesterdayProfit ==
    /\ ret' = [ret EXCEPT
                 !.op = "get_yesterday_profit",
                 !.value.profit =
                     get_yesterday_profit(ret.value.yesterday_buy_prices,
                                          ret.value.yesterday_sell_prices,
                                          ret.value.yesterday_init_position,
                                          ret.value.stock_symbols)]
    /\ UNCHANGED <<position_file_exists, position_file, merged_file_exists,
                   merged_file_readable, merged_file, agent, runtime_env, run, env_file>>

ProfitNext == GetYesterdayProfit

ProfitSpec == ProfitInit /\ [][ProfitNext]_vars

----------------------------------------------------------------------------
(* The runtime configuration file under file failures *)

\* a value json.dump rejects: the file is left cut short
NotSerialisable == "<object>"

ConfigKeys == {"TODAY_DATE", "SIGNATURE"}
ConfigValues == {"2025-10-10", "2025-10-13", NotSerialisable}
Defaults == {"", "default"}

\* os.environ: the process environment the calls are made in
Environs == { <<>>, ("TODAY_DATE" :> "2025-10-09") }

\* every condition of the file: in a directory that exists it is absent,
\* holds an object or holds something else; in a directory that is missing,
\* and that mkdir can or cannot create, it is absent
EnvFiles ==
    { <<[dir |-> "present", parsable |-> TRUE, writable |-> w], env>> :
         w \in BOOLEAN, env \in { <<>>, ("TODAY_DATE" :> "2025-10-10") } }
    \cup { <<[dir |-> "present", parsable |-> FALSE, writable |-> w], <<>>>> :
             w \in BOOLEAN }
    \cup { <<[dir |-> "missing", parsable |-> TRUE, writable |-> w], <<>>>> :
             w \in BOOLEAN }
    \cup { <<[dir |-> "blocked", parsable |-> TRUE, writable |-> FALSE], <<>>>> }

ConfigInit ==
    /\ position_file_exists = FALSE
    /\ position_file = <<>>
    /\ merged_file_exists = FALSE
    /\ merged_file = <<>>
    /\ merged_file_readable = TRUE
    /\ agent = [initial_cash |-> DefaultInitialCash, init_date |-> 1,
                stock_symbols |-> {"600519.SH", "601318.SH"}]
    /\ ret = [op |-> "init", date |-> 0, positions |-> EmptyPositions, id |-> -1,
              wrote |-> FALSE, raised |-> FALSE, value |-> <<>>]
    /\ \E f \in EnvFiles : env_file = f[1] /\ runtime_env = f[2]
    /\ run = IdleRun

\* _resolve_runtime_env_path: mkdir(parents=True, exist_ok=True) of the
\* file's directory, under no try
MkdirRaises == env_file.dir = "blocked"
AfterMkdir == [env_file EXCEPT !.dir = "present"]

\* _load_runtime_env: {} for a file that is absent or holds no object
LoadRuntimeEnv == IF env_file.parsable THEN runtime_env ELSE <<>>

\* get_config_value(key, default) with the environment environ
GetConfigValue(key, default, environ) ==
    /\ ret' = [op |-> "get_config_value", date |-> 0, positions |-> EmptyPositions,
               id |-> -1, wrote |-> FALSE, raised |-> MkdirRaises,
               value |-> [key |-> key, default |-> default, environ |-> environ,
                          result |-> IF MkdirRaises THEN ""
                                     ELSE IF key \in DOMAIN LoadRuntimeEnv
                                     THEN LoadRuntimeEnv[key]
                                     ELSE Get(environ, key, default)]]
    /\ env_file' = IF MkdirRaises THEN env_file ELSE AfterMkdir
    /\ UNCHANGED <<position_file_exists, position_file, merged_file_exists,
                   merged_file_readable, merged_file, agent, runtime_env, run>>

\* write_config_value(key, value): open(path, "w") fails on a file that
\* cannot be written and leaves it as it is; json.dump fails on a value it
\* cannot serialise and leaves the file cut short; both are caught
WriteConfigValue(key, value) ==
    LET opened == ~MkdirRaises /\ env_file.writable
        dumped == opened /\ value # NotSerialisable
    IN  /\ ret' = [op |-> "write_config_value", date |-> 0,
                   positions |-> EmptyPositions, id |-> -1, wrote |-> dumped,
                   raised |-> MkdirRaises,
                   value |-> [key |-> key, value |-> value]]
        /\ runtime_env' = IF dumped THEN write_config_value(key, value, LoadRuntimeEnv)
                          ELSE IF opened THEN <<>>
                          ELSE runtime_env
        /\ env_file' = IF MkdirRaises THEN env_file
                       ELSE IF opened THEN [AfterMkdir EXCEPT !.parsable = dumped]
                       ELSE AfterMkdir
        /\ UNCHANGED <<position_file_exists, position_file, merged_file_exists,
                       merged_file_readable, merged_file, agent, run>>

ConfigNext ==
    \/ \E key \in ConfigKeys, default \in Defaults, environ \in Environs :
          GetConfigValue(key, default, environ)
    \/ \E key \in ConfigKeys, value \in ConfigValues : WriteConfigValue(key, value)

ConfigSpec == ConfigInit /\ [][ConfigNext]_vars

----------------------------------------------------------------------------
(* The reads and the settlement arithmetic side by side, on one ledger and  *)
(* one price file, with the no-trade record as the write between them       *)

\* ledger files written one snapshot a day from day 1 on: the line at place i
\* has id i - 1 and date i
ReadLedgers == { f \in LedgerFiles : \A i \in DOMAIN f : f[i].id = i - 1 /\ f[i].date = i }

ReadInit ==
    /\ position_file \in ReadLedgers
    /\ position_file_exists = (position_file # <<>>)
    /\ agent = [initial_cash |-> DefaultInitialCash, init_date |-> 1,
                stock_symbols |-> {"600519.SH", "601318.SH"}]
    /\ InitCommon
    /\ merged_file_readable = TRUE
    /\ DriverAtRest

\* the arguments get_yesterday_profit is called with in between: both symbols
\* priced, 100 shares of the first held
ProfitArguments ==
    { a \in BuyMaps \X SellMaps \X HeldPositions :
        /\ \A sym \in ProfitSymbols : PriceKey(sym) \in DOMAIN a[1] \cap DOMAIN a[2]
        /\ \A k \in DOMAIN a[1] : a[1][k] # None
        /\ \A k \in DOMAIN a[2] : a[2][k] # None
        /\ ProfitSymbols \subseteq DOMAIN a[3] /\ a[3]["600519.SH"] = 100 }

\* get_yesterday_profit called with its four arguments
YesterdayProfit(buy, sell, held, symbols) ==
    /\ ret' = [op |-> "get_yesterday_profit", date |-> 0,
               positions |-> EmptyPositions, id |-> -1, wrote |-> FALSE,
               raised |-> FALSE,
               value |-> [yesterday_buy_prices |-> buy,
                          yesterday_sell_prices |-> sell,
                          yesterday_init_position |-> held,
                          stock_symbols |-> symbols,
                          profit |-> get_yesterday_profit(buy, sell, held, symbols)]]
    /\ UNCHANGED <<position_file_exists, position_file, merged_file_exists,
                   merged_file_readable, merged_file, agent, runtime_env, run, env_file>>

AllReadsNext ==
    \/ \E d \in Days : GetLatestPosition(d)
    \/ \E d \in Days : GetTodayInitPosition(d)
    \/ \E date \in PriceDates : IsTradingDay(date)
    \/ \E date \in PriceDates : GetYesterdayDate(date)
    \/ \E date \in PriceDates, symbols \in SymbolLists : GetOpenPrices(date, symbols)
    \/ \E date \in PriceDates, symbols \in SymbolLists :
          GetYesterdayOpenAndClosePrice(date, symbols)
    \/ \E symbol \in CostSymbols, direction \in Directions :
          CalculateTradeCost(symbol, 1800, 100, direction)
    \/ \E a \in ProfitArguments : YesterdayProfit(a[1], a[2], a[3], ProfitSymbols)
    \/ AddNoTradeRecord(MaxDay)

ReadSpec == ReadInit /\ [][AllReadsNext]_vars

----------------------------------------------------------------------------
(* agents/decision_maker_agent.py: the decision on an analysis result.  The  *)
(* confidence is a Python float; an analysis result is the record of its     *)
(* keys, a decision the record of the keys make_decision has set.            *)

\* the literal 0.7
confidence_threshold == FloatOfDecimal(7, 10)

\* variant: a confidence equal to the threshold is approved too
make_decision_inclusive(analysis_result) ==
    IF ~FloatLess(analysis_result.confidence, confidence_threshold)
    THEN [status |-> "Approved", recommendation |-> analysis_result]
    ELSE [status |-> "Rejected", reason |-> "Low confidence"]

make_decision(analysis_result) ==
    IF FloatLess(confidence_threshold, analysis_result.confidence)
    THEN [status |-> "Approved", recommendation |-> analysis_result]
    ELSE [status |-> "Rejected", reason |-> "Low confidence"]

\* analysis results: confidences 0.00, 0.01 .. 1.00 as written in decimal, and
\* the product 0.07 * 10, the float next above 0.7
AnalysisResults ==
    { [stock |-> stock, confidence |-> c, position |-> "50%"] :
        stock \in {"AAPL", "600519.SH"},
        c \in { FloatOfDecimal(p, 100) : p \in 0..100 } \cup
              { IntTimesFloat(10, FloatOfDecimal(7, 100)) } }

\* the analysis result of the call to come
DecisionInit ==
    /\ position_file_exists = FALSE
    /\ position_file = <<>>
    /\ merged_file_exists = FALSE
    /\ merged_file = <<>>
    /\ agent = [initial_cash |-> DefaultInitialCash, init_date |-> 1,
                stock_symbols |-> {"600519.SH", "601318.SH"}]
    /\ \E analysis_result \in AnalysisResults :
          ret = [op |-> "init", date |-> 0, positions |-> EmptyPositions, id |-> -1,
                 wrote |-> FALSE, raised |-> FALSE,
                 value |-> [analysis_result |-> analysis_result, decision |-> <<>>]]
    /\ merged_file_readable = TRUE
    /\ DriverAtRest

MakeDecision ==
    /\ ret' = [ret EXCEPT !.op = "make_decision",
                          !.value.decision = make_decision(ret.value.analysis_result)]
    /\ UNCHANGED <<position_file_exists, position_file, merged_file_exists,
                   merged_file_readable, merged_file, agent, runtime_env, run, env_file>>

DecisionNext == MakeDecision

DecisionSpec == DecisionInit /\ [][DecisionNext]_vars

----------------------------------------------------------------------------
(* agent_service/agent_astock.py: initialize and run_trading_session of an   *)
(* agent object as the constructor leaves it.  The object carries, besides   *)
(* its constructor arguments, client, tools, model and agent (here: whether  *)
(* they are set), whether the agent was invoked, and the dates whose log     *)
(* directory exists under its data path.                                     *)

\* __init__: client, tools, model and agent are None
Constructed(a) ==
    a @@ [client |-> FALSE, tools |-> "None", model |-> FALSE, agent |-> FALSE,
          invoked |-> FALSE, log_dirs |-> {}]

\* the dates run_trading_session is called with
SessionDays == {2, 3}

\* the ledger file is absent or holds the registration; IF_TRADE may have been
\* left set in the runtime configuration
SessionInit ==
    /\ \E a \in AgentConfigs, registered \in BOOLEAN :
          /\ agent = Constructed(a)
          /\ position_file_exists = registered
          /\ position_file = IF registered THEN register_agent(a, FALSE, <<>>) ELSE <<>>
    /\ merged_file_exists = TRUE
    /\ merged_file = FullStore
    /\ merged_file_readable = TRUE
    /\ ret = [op |-> "init", date |-> 0, positions |-> EmptyPositions, id |-> -1,
              wrote |-> FALSE, raised |-> FALSE, value |-> <<>>]
    /\ runtime_env \in { <<>>, write_config_value("IF_TRADE", TRUE, <<>>) }
    /\ env_file = HealthyEnvFile
    /\ run = IdleRun

\* the ways initialize can go: no API key; MultiServerMCPClient or get_tools
\* raises; get_tools returns an empty list; the model constructor raises
InitializeOutcomes ==
    {"no_api_key", "client_raises", "get_tools_raises", "no_tools",
     "no_tools_model_raises", "model_raises", "ok"}

Initialize(outcome) ==
    /\ agent' =
          CASE outcome = "no_api_key" -> agent
            [] outcome = "client_raises" -> [agent EXCEPT !.tools = "None"]
            [] outcome = "get_tools_raises" ->
                  [agent EXCEPT !.client = TRUE, !.tools = "None"]
            [] outcome = "no_tools" ->
                  [agent EXCEPT !.client = TRUE, !.tools = "empty", !.model = TRUE]
            [] outcome = "no_tools_model_raises" ->
                  [agent EXCEPT !.client = TRUE, !.tools = "empty", !.model = FALSE]
            [] outcome = "model_raises" ->
                  [agent EXCEPT !.client = TRUE, !.tools = "loaded", !.model = FALSE]
            [] outcome = "ok" ->
                  [agent EXCEPT !.client = TRUE, !.tools = "loaded", !.model = TRUE]
    /\ ret' = [op |-> "initialize", date |-> 0, positions |-> EmptyPositions,
               id |-> -1, wrote |-> FALSE,
               raised |-> outcome \notin {"no_tools", "ok"},
               value |-> IF outcome = "no_api_key" THEN "ValueError"
                         ELSE IF outcome \in {"no_tools", "ok"} THEN "None"
                         ELSE "RuntimeError"]
    /\ UNCHANGED <<position_file_exists, position_file, merged_file_exists,
                   merged_file_readable, merged_file, runtime_env, run, env_file>>

\* variant: self.tools is not looked at
ComponentMissing_tools_unchecked(a) == ~a.model \/ ~a.client

\* "if not self.model", "if not self.tools" (None or the empty list),
\* "if not self.client"
ComponentMissing(a) == ~a.model \/ a.tools # "loaded" \/ ~a.client

\* the ways a session with all components can go: create_agent fails; a step
\* raises; the step loop ends and the result is handled
SessionOutcomes == {"create_fails", "step_raises", "completed"}

\* run_trading_session(today_date): the three checks, then _setup_logging,
\* create_agent, the step loop and _handle_trading_result
RunTradingSession(d, outcome) ==
    LET result(raised, value) ==
            [op |-> "run_trading_session", date |-> d, positions |-> EmptyPositions,
             id |-> -1, wrote |-> FALSE, raised |-> raised, value |-> value]
        logged == [agent EXCEPT !.log_dirs = @ \cup {d}]
    IN  IF ComponentMissing(agent)
        THEN /\ ret' = result(TRUE, "RuntimeError")
             /\ UNCHANGED <<position_file_exists, position_file, merged_file_exists,
                            merged_file_readable, merged_file, agent, runtime_env,
                            run, env_file>>
        ELSE IF outcome = "create_fails"
        THEN /\ ret' = result(TRUE, "RuntimeError")
             /\ agent' = logged
             /\ UNCHANGED <<position_file_exists, position_file, merged_file_exists,
                            merged_file_readable, merged_file, runtime_env, run,
                            env_file>>
        ELSE IF outcome = "step_raises"
        THEN /\ ret' = result(TRUE, "Exception")
             /\ agent' = [logged EXCEPT !.agent = TRUE, !.invoked = TRUE]
             /\ UNCHANGED <<position_file_exists, position_file, merged_file_exists,
                            merged_file_readable, merged_file, runtime_env, run,
                            env_file>>
        ELSE /\ if_trade(runtime_env) \/ Len(position_file) < MaxLines
             /\ ret' = [result(FALSE, "None") EXCEPT !.wrote = ~if_trade(runtime_env)]
             /\ agent' = [logged EXCEPT !.agent = TRUE, !.invoked = TRUE]
             /\ position_file' = HandledLedger(DateStr(d), runtime_env,
                                               position_file_exists, position_file,
                                               merged_file_exists, merged_file)
             /\ position_file_exists' = (position_file_exists \/ ~if_trade(runtime_env))
             /\ runtime_env' = write_config_value("IF_TRADE", FALSE, runtime_env)
             /\ UNCHANGED <<merged_file_exists, merged_file_readable, merged_file,
                            run, env_file>>

SessionNext ==
    \/ \E outcome \in InitializeOutcomes : Initialize(outcome)
    \/ \E d \in SessionDays, outcome \in SessionOutcomes : RunTradingSession(d, outcome)

SessionSpec == SessionInit /\ [][SessionNext]_vars

----------------------------------------------------------------------------
(* agent_service/agent_astock.py: _ainvoke_with_retry, step by step.  The    *)
(* agent object carries max_retries, base_delay (in units of 0.5 s, the      *)
(* default) and whether self.agent is set; run holds the attempt, the number *)
(* of calls of agent.ainvoke, the sleeps and the exceptions raised so far.   *)

\* the greatest max_retries an agent is built with
MaxRetries == 3

\* the exceptions agent.ainvoke raises: the first is handled by the first
\* except clause, the others by the second
InvokeErrors == {"AttributeError", "TimeoutError", "ValueError"}

\* the exception raised by the attempt k
Raised(type, k) == [type |-> type, attempt |-> k]

\* the response returned by the attempt k
Response(k) == [messages |-> k]

\* wait_time = self.base_delay * attempt
RetryDelay(base_delay, attempt) == base_delay * attempt

\* variant: one attempt more
LastAttempt_one_more(attempt, retries) == attempt = retries + 1

\* "if attempt == self.max_retries"
LastAttempt(attempt, retries) == attempt = retries

InvokeInit ==
    /\ position_file_exists = FALSE
    /\ position_file = <<>>
    /\ merged_file_exists = FALSE
    /\ merged_file = <<>>
    /\ merged_file_readable = TRUE
    /\ \E retries \in 0..MaxRetries, base_delay \in 0..2, created \in BOOLEAN :
          agent = [initial_cash |-> DefaultInitialCash, init_date |-> 1,
                   stock_symbols |-> {"600519.SH"}, max_retries |-> retries,
                   base_delay |-> base_delay, agent |-> created]
    /\ ret = [op |-> "init", date |-> 0, positions |-> EmptyPositions, id |-> -1,
              wrote |-> FALSE, raised |-> FALSE, value |-> <<>>]
    /\ runtime_env = <<>>
    /\ env_file = HealthyEnvFile
    /\ run = [pc |-> "call", attempt |-> 0, invoked |-> 0, waited |-> <<>>,
              errors |-> <<>>]

\* the result record of _ainvoke_with_retry
InvokeResult(raised, value) ==
    [op |-> "_ainvoke_with_retry", date |-> 0, positions |-> EmptyPositions,
     id |-> -1, wrote |-> FALSE, raised |-> raised, value |-> value]

\* the call up to the first attempt: the check of self.agent, and the for
\* loop over range(1, max_retries + 1), which is empty for max_retries = 0
AinvokeWithRetry ==
    /\ run.pc = "call"
    /\ IF ~agent.agent
       THEN /\ ret' = InvokeResult(TRUE, Raised("RuntimeError", 0))
            /\ run' = [run EXCEPT !.pc = "done"]
       ELSE IF agent.max_retries < 1
       THEN /\ ret' = InvokeResult(FALSE, "None")
            /\ run' = [run EXCEPT !.pc = "done"]
       ELSE /\ run' = [run EXCEPT !.pc = "attempt", !.attempt = 1]
            /\ UNCHANGED ret
    /\ UNCHANGED <<position_file_exists, position_file, merged_file_exists,
                   merged_file_readable, merged_file, agent, runtime_env, env_file>>

\* one attempt: agent.ainvoke returns a response, or raises and the except
\* clause re-raises in the last attempt
Ainvoke(outcome) ==
    /\ run.pc = "attempt"
    /\ IF outcome = "ok"
       THEN /\ ret' = InvokeResult(FALSE, Response(run.attempt))
            /\ run' = [run EXCEPT !.pc = "done", !.invoked = @ + 1]
       ELSE LET e == Raised(outcome, run.attempt)
            IN  IF LastAttempt(run.attempt, agent.max_retries)
                THEN /\ ret' = InvokeResult(TRUE, e)
                     /\ run' = [run EXCEPT !.pc = "done", !.invoked = @ + 1,
                                           !.errors = Append(@, e)]
                ELSE /\ run' = [run EXCEPT !.pc = "sleep", !.invoked = @ + 1,
                                           !.errors = Append(@, e)]
                     /\ UNCHANGED ret
    /\ UNCHANGED <<position_file_exists, position_file, merged_file_exists,
                   merged_file_readable, merged_file, agent, runtime_env, env_file>>

\* await asyncio.sleep(wait_time), then the next attempt of the loop
Sleep ==
    /\ run.pc = "sleep"
    /\ run' = [run EXCEPT !.pc = "attempt", !.attempt = @ + 1,
                          !.waited = Append(@, RetryDelay(agent.base_delay, run.attempt))]
    /\ UNCHANGED <<position_file_exists, position_file, merged_file_exists,
                   merged_file_readable, merged_file, agent, ret, runtime_env, env_file>>

InvokeNext ==
    \/ AinvokeWithRetry
    \/ \E outcome \in InvokeErrors \cup {"ok"} : Ainvoke(outcome)
    \/ Sleep

\* the event loop runs the coroutine on: agent.ainvoke returns or raises (the
\* model has a timeout) and every sleep ends
InvokeSpec == InvokeInit /\ [][InvokeNext]_vars /\ WF_vars(InvokeNext)

----------------------------------------------------------------------------
(* The runtime configuration file written by two processes *)

\* the driver and the tools module, each in a process of its own
Writers == {"driver", "tools"}

\* the keys each process writes, and the values it writes under a key
WriterKeys(p) == IF p = "driver" THEN {"TODAY_DATE", "SIGNATURE"} ELSE {"IF_TRADE", "SIGNATURE"}
WriterValues(key) ==
    IF key = "IF_TRADE" THEN BOOLEAN
    ELSE IF key = "TODAY_DATE" THEN {"2025-10-10", "2025-10-13"}
    ELSE {"sig", "sig2"}

\* the documents the file holds before the two calls
WriterFiles ==
    { <<>>,
      ("LOG_PATH" :> "./data/agent_data_astock"),
      ("LOG_PATH" :> "./data/agent_data_astock") @@ ("TODAY_DATE" :> "2025-10-09")
         @@ ("SIGNATURE" :> "old") @@ ("IF_TRADE" :> FALSE) }

\* each process is about to call write_config_value(key, value); the run
\* record holds each call's arguments, position and loaded document, and
\* the document of the file before the calls
WritersInit ==
    /\ position_file_exists = FALSE
    /\ position_file = <<>>
    /\ merged_file_exists = FALSE
    /\ merged_file = <<>>
    /\ merged_file_readable = TRUE
    /\ agent = [initial_cash |-> DefaultInitialCash, init_date |-> 1,
                stock_symbols |-> {"600519.SH", "601318.SH"}]
    /\ ret = [op |-> "init", date |-> 0, positions |-> EmptyPositions, id |-> -1,
              wrote |-> FALSE, raised |-> FALSE, value |-> <<>>]
    /\ env_file = [dir |-> "present", parsable |-> TRUE, writable |-> TRUE]
    /\ \E f \in WriterFiles, k1 \in WriterKeys("driver"), k2 \in WriterKeys("tools") :
         \E v1 \in WriterValues(k1), v2 \in WriterValues(k2) :
            /\ k1 # k2
            /\ runtime_env = f
            /\ run = [pc |-> [p \in Writers |-> "load"],
                      key |-> [p \in Writers |-> IF p = "driver" THEN k1 ELSE k2],
                      value |-> [p \in Writers |-> IF p = "driver" THEN v1 ELSE v2],
                      local |-> [p \in Writers |-> <<>>],
                      before |-> f]

WriterRet(p, wrote) ==
    [op |-> "write_config_value", date |-> 0, positions |-> EmptyPositions, id |-> -1,
     wrote |-> wrote, raised |-> FALSE, value |-> [key |-> run.key[p], value |-> run.value[p]]]

\* variant: the call holds a lock on the file from its load to its dump
MayLoad_locked(p) == \A q \in Writers \ {p} : run.pc[q] \in {"load", "done"}

\* write_config_value takes no lock: a call starts whatever the other does
MayLoad(p) == TRUE

\* runtime_env = _load_runtime_env(); runtime_env[key] = value
WriterLoad(p) ==
    /\ run.pc[p] = "load"
    /\ MayLoad(p)
    /\ run' = [run EXCEPT !.pc[p] = "open",
                          !.local[p] = write_config_value(run.key[p], run.value[p],
                                                          LoadRuntimeEnv)]
    /\ ret' = WriterRet(p, FALSE)
    /\ UNCHANGED <<position_file_exists, position_file, merged_file_exists,
                   merged_file_readable, merged_file, agent, runtime_env, env_file>>

\* open(path, "w"): the file is cut to nothing
WriterOpen(p) ==
    /\ run.pc[p] = "open"
    /\ run' = [run EXCEPT !.pc[p] = "dump"]
    /\ runtime_env' = <<>>
    /\ env_file' = [env_file EXCEPT !.parsable = FALSE]
    /\ ret' = WriterRet(p, FALSE)
    /\ UNCHANGED <<position_file_exists, position_file, merged_file_exists,
                   merged_file_readable, merged_file, agent>>

\* json.dump(runtime_env, f) and the close of the file: the file holds the
\* document the call loaded, with its key set
WriterDump(p) ==
    /\ run.pc[p] = "dump"
    /\ run' = [run EXCEPT !.pc[p] = "done"]
    /\ runtime_env' = run.local[p]
    /\ env_file' = [env_file EXCEPT !.parsable = TRUE]
    /\ ret' = WriterRet(p, TRUE)
    /\ UNCHANGED <<position_file_exists, position_file, merged_file_exists,
                   merged_file_readable, merged_file, agent>>

WritersNext ==
    \/ \E p \in Writers : WriterLoad(p)
    \/ \E p \in Writers : WriterOpen(p)
    \/ \E p \in Writers : WriterDump(p)

WritersSpec == WritersInit /\ [][WritersNext]_vars

----------------------------------------------------------------------------
(* Properties of the ledger *)

IsPrefix(s, t) == Len(s) <= Len(t) /\ SubSeq(t, 1, Len(s)) = s

\* the lines of the ledger that are snapshots dated day d
SnapshotsAt(lines, d) == { i \in DOMAIN lines : lines[i].ok /\ lines[i].date = d }

\* the lines of the ledger that are snapshots dated before day d
SnapshotsBefore(lines, d) == { i \in DOMAIN lines : lines[i].ok /\ lines[i].date < d }

\* line i holds the greatest id among the lines idx
HasMaxId(lines, idx, i) == i \in idx /\ \A j \in idx : lines[j].id <= lines[i].id

\* line i holds the greatest (date, id) among the lines idx
HasMaxDateId(lines, idx, i) ==
    /\ i \in idx
    /\ \A j \in idx : \/ lines[j].date < lines[i].date
                      \/ lines[j].date = lines[i].date /\ lines[j].id <= lines[i].id

\* C1: the ledger is append-only.  Every step of register, add_no_trade_record
\* and the reads leaves the lines that were in the file as a prefix of the
\* lines in it afterwards, and never removes the file.
C1_AppendOnly ==
    [][ /\ IsPrefix(position_file, position_file')
        /\ position_file_exists => position_file_exists' ]_vars

\* a ledger holding the registration snapshot and a later record, on which
\* register was called again
C1_Witness ==
    /\ Len(position_file) >= 2
    /\ position_file[1].id = 0
    /\ ret.op = "register_agent"
    /\ ~ret.wrote

\* C2: in every ledger reached by register and add_no_trade_record calls no two
\* snapshots have the same (date, id), and the snapshot appended last for a date
\* holds the greatest id of that date.
C2_UniqueIdsLatestLast ==
    /\ \A i, j \in DOMAIN position_file :
          i # j => <<position_file[i].date, position_file[i].id>>
                     # <<position_file[j].date, position_file[j].id>>
    /\ \A d \in Days :
          LET idx == SnapshotsAt(position_file, d)
          IN  \A last \in idx : (\A j \in idx : j <= last)
                                    => HasMaxId(position_file, idx, last)

\* a ledger with two records of one date and a record of another date
C2_Witness ==
    \E i, j, k \in DOMAIN position_file :
        /\ i < j
        /\ position_file[i].date = position_file[j].date
        /\ position_file[k].date # position_file[i].date

C4_RegisterWritesInitialSnapshot ==
    [][ (ret'.op = "register_agent" /\ ~position_file_exists)
            => /\ position_file_exists'
               /\ Len(position_file') = 1
               /\ LET s == position_file'[1]
                  IN  /\ s.ok
                      /\ s.id = 0
                      /\ s.date = agent.init_date
                      /\ s.this_action = <<>>
                      /\ DOMAIN s.positions = agent.stock_symbols \cup {"CASH"}
                      /\ \A sym \in agent.stock_symbols : s.positions[sym] = 0
                      /\ s.positions["CASH"] = agent.initial_cash ]_vars

\* register has just created the ledger of an agent whose initial cash is not
\* the default
C4_Witness ==
    /\ ret.op = "register_agent"
    /\ ret.wrote
    /\ agent.initial_cash # DefaultInitialCash
    /\ Len(position_file) = 1

\* C5: step 1 of get_latest_position.  When the ledger holds a snapshot dated
\* as_of_date, the result is the positions and the id of the snapshot with the
\* greatest id of that date, whatever the order of the lines and the other dates.
C5_LatestAtDateWins ==
    (ret.op = "get_latest_position" /\ SnapshotsAt(position_file, ret.date) # {})
        => \E i \in SnapshotsAt(position_file, ret.date) :
              /\ HasMaxId(position_file, SnapshotsAt(position_file, ret.date), i)
              /\ ret.positions = position_file[i].positions
              /\ ret.id = position_file[i].id

\* the date's greatest id is not on the date's last line, and the ledger holds
\* a later date as well
C5_Witness ==
    /\ ret.op = "get_latest_position"
    /\ \E i, j, k \in DOMAIN position_file :
          /\ i < j
          /\ position_file[i].date = ret.date
          /\ position_file[j].date = ret.date
          /\ position_file[i].id > position_file[j].id
          /\ position_file[k].date > ret.date
          /\ ret.id = position_file[i].id

\* The previous trading day of day d by the contract of the trading calendar:
\* the latest day before d with a timestamp in the price store, and the
\* calendar fallback when the store is missing or holds none.
StoreDaysBefore(d) ==
    IF merged_file_exists
    THEN { ts.day : ts \in { t \in AllTimestamps(merged_file) : t.day < d } }
    ELSE {}

PreviousTradingDay(d) ==
    IF StoreDaysBefore(d) # {}
    THEN CHOOSE p \in StoreDaysBefore(d) : \A q \in StoreDaysBefore(d) : q <= p
    ELSE SkipWeekend(d - 1)

\* the dates of the snapshots in the ledger
LedgerDates == { position_file[i].date : i \in { j \in DOMAIN position_file : position_file[j].ok } }

\* the result of the last get_latest_position is line i of the ledger
ResultIsLine(i) ==
    /\ ret.positions = position_file[i].positions
    /\ ret.id = position_file[i].id

\* C6: three-step fallback of get_latest_position.  For a ledger with snapshots
\* only at two dates D1 < D2, both before the queried date D3: when D2 is the
\* previous trading day of D3 the result is the snapshot of D2 with the greatest
\* id, and when the previous trading day has no snapshot the result is the
\* snapshot with the greatest (date, id) before D3.
C6_ThreeStepFallback ==
    (/\ ret.op = "get_latest_position"
     /\ Cardinality(LedgerDates) = 2
     /\ \A d \in LedgerDates : d < ret.date)
        => LET d2 == CHOOSE d \in LedgerDates : \A e \in LedgerDates : e <= d
               p  == PreviousTradingDay(ret.date)
           IN  /\ p = d2 =>
                     \E i \in SnapshotsAt(position_file, d2) :
                         /\ HasMaxId(position_file, SnapshotsAt(position_file, d2), i)
                         /\ ResultIsLine(i)
               /\ SnapshotsAt(position_file, p) = {} =>
                     \E i \in SnapshotsBefore(position_file, ret.date) :
                         /\ HasMaxDateId(position_file,
                                         SnapshotsBefore(position_file, ret.date), i)
                         /\ ResultIsLine(i)

OnlyBefore(lines, d) ==
    LET keep(l) == l.ok /\ l.date < d IN SelectSeq(lines, keep)

\* C8: get_today_init_position returns the positions of the snapshot with the
\* greatest (date, id) among those dated before as_of_date, the empty mapping
\* when there is none, and the same result whatever snapshots are dated
\* as_of_date or later.
C8_InitPositionIsNewestBefore ==
    /\ ret.op = "get_today_init_position"
          => IF position_file_exists /\ SnapshotsBefore(position_file, ret.date) # {}
             THEN \E i \in SnapshotsBefore(position_file, ret.date) :
                     /\ HasMaxDateId(position_file,
                                     SnapshotsBefore(position_file, ret.date), i)
                     /\ ret.positions = position_file[i].positions
             ELSE ret.positions = EmptyPositions
    /\ \A d \in Days :
          get_today_init_position(DateStr(d), position_file_exists, position_file)
            = get_today_init_position(DateStr(d), position_file_exists,
                                      OnlyBefore(position_file, d))

\* the newest earlier snapshot is not the last one in the file, and the ledger
\* holds a snapshot dated as_of_date or later
C8_Witness ==
    /\ ret.op = "get_today_init_position"
    /\ \E i, j, k \in DOMAIN position_file :
          /\ i < j
          /\ position_file[j].date < position_file[i].date
          /\ position_file[i].date < ret.date
          /\ position_file[k].date >= ret.date
          /\ ret.positions = position_file[i].positions

\* C9: add_no_trade_record(date) on a ledger where get_latest_position(date)
\* is not empty appends one snapshot: the date, the id returned by
\* get_latest_position(date) plus 1, the action no_trade with an empty symbol
\* and amount 0, and the positions get_latest_position(date) returned.
C9_NoTradeAppendsLatestPlusOne ==
    [][ ret'.op = "add_no_trade_record"
            => LET latest == get_latest_position(DateStr(ret'.date), position_file_exists,
                                                 position_file, merged_file_exists,
                                                 merged_file)
               IN  latest.positions # EmptyPositions
                     => position_file' =
                          Append(position_file,
                                 [ok |-> TRUE, date |-> ret'.date, id |-> latest.id + 1,
                                  positions |-> latest.positions,
                                  this_action |-> <<[action |-> "no_trade", symbol |-> "",
                                                     amount |-> 0]>>]) ]_vars

\* a no-trade record that carries shares over from a snapshot with id 1
C9_Witness ==
    /\ ret.op = "add_no_trade_record"
    /\ Len(position_file) >= 2
    /\ LET s == position_file[Len(position_file)]
       IN  /\ s.date = ret.date
           /\ s.id = 2
           /\ s.this_action = NoTradeAction
           /\ s.positions["600519.SH"] = 100

\* C10: add_no_trade_record(date) on an empty or missing ledger takes the
\* all-cash base {CASH: default initial cash} with id 0: it creates the file and
\* appends the snapshot with id 1 and positions {CASH: default initial cash}.
C10_NoTradeOnEmptyLedger ==
    [][ (ret'.op = "add_no_trade_record" /\ position_file = <<>>)
            => /\ position_file_exists'
               /\ position_file' =
                    << [ok |-> TRUE, date |-> ret'.date, id |-> 1,
                        positions |-> [CASH |-> DefaultInitialCash],
                        this_action |-> <<[action |-> "no_trade", symbol |-> "",
                                           amount |-> 0]>>] >> ]_vars

\* the first record of a ledger that did not exist, for an agent created with
\* another initial cash
C10_Witness ==
    /\ ret.op = "add_no_trade_record"
    /\ Len(position_file) = 1
    /\ position_file[1].id = 1
    /\ position_file[1].positions = [CASH |-> DefaultInitialCash]
    /\ agent.initial_cash # DefaultInitialCash

\* the first line of the ledger dated day d: it holds the date's base id
FirstAt(lines, d) == CHOOSE i \in SnapshotsAt(lines, d) : \A j \in SnapshotsAt(lines, d) : i <= j

\* C11: monotonic ids per date.  In a ledger built by register and
\* add_no_trade_record calls, the greatest id of every date equals the id of the
\* date's first snapshot plus the number of snapshots of that date minus 1.
C11_MaxIdIsBasePlusCount ==
    \A d \in Days :
        LET idx == SnapshotsAt(position_file, d)
        IN  idx # {} =>
              \E i \in idx :
                 /\ HasMaxId(position_file, idx, i)
                 /\ position_file[i].id
                      = position_file[FirstAt(position_file, d)].id + Cardinality(idx) - 1

\* a registered ledger after two add_no_trade_record calls for distinct dates,
\* one of them the date of the registration
C11_Witness ==
    /\ Len(position_file) = 3
    /\ position_file[1].id = 0
    /\ position_file[2].this_action = NoTradeAction
    /\ position_file[3].this_action = NoTradeAction
    /\ position_file[2].date # position_file[3].date
    /\ position_file[1].date \in {position_file[2].date, position_file[3].date}

\* C13: every snapshot of a ledger built by register and add_no_trade_record
\* calls has a positions mapping with a CASH entry.
C13_EverySnapshotHasCash ==
    \A i \in 1..Len(position_file) : "CASH" \in DOMAIN position_file[i].positions

\* a ledger holding the registration snapshot and two no-trade snapshots
C13_Witness ==
    /\ Len(position_file) = 3
    /\ position_file[1].this_action = <<>>
    /\ \A i \in 2..3 : /\ position_file[i].this_action = NoTradeAction
                       /\ position_file[i].positions = position_file[1].positions

----------------------------------------------------------------------------
(* Properties of the trading calendar *)

\* every line of the price file is a record or is no JSON at all, so that the
\* scan of the file runs to its end
Readable(lines) == \A i \in DOMAIN lines : lines[i].ok => lines[i].object

\* the records loaded from the price file
LoadedRecords(lines) == { i \in DOMAIN lines : lines[i].ok /\ lines[i].object }

\* a date string of the form YYYY-MM-DD
IsDateOnly(date) == date # InvalidDate /\ date.time = NoTime

\* C16: with a readable price file, is_trading_day(date) is true exactly when
\* some loaded record, of whatever symbol the file holds, has a timestamp equal
\* to date or a date-time stamp on that date; a weekday absent from the file is
\* not a trading day.
C16_TradingDayIffInStore ==
    (ret.op = "is_trading_day" /\ merged_file_exists /\ Readable(merged_file)
        /\ IsDateOnly(ret.date))
    => /\ ret.value = (\E i \in LoadedRecords(merged_file) :
                         \E ts \in DOMAIN merged_file[i].series :
                            \/ ts = ret.date
                            \/ ts.time # NoTime /\ ts.day = ret.date.day)
       /\ (/\ Weekday(ret.date.day) < 5
           /\ \A i \in LoadedRecords(merged_file) :
                 \A ts \in DOMAIN merged_file[i].series : ts.day # ret.date.day)
          => ret.value = FALSE

\* Monday 2025-10-13 asked of the daily file, which has bars on Friday and
\* Saturday only
C16_Witness ==
    /\ ret.op = "is_trading_day"
    /\ merged_file_exists
    /\ merged_file = DailyStore
    /\ ret.date = DateStr(4)
    /\ ret.value = FALSE

\* C17: with no price file, is_trading_day(date) is a boolean, true exactly
\* for a date from Monday to Friday (true for Friday 2025-10-10, false for
\* Saturday 2025-10-11) and false for a string that is no date; it never raises.
C17_CalendarFallbackWithoutFile ==
    (ret.op = "is_trading_day" /\ ~merged_file_exists)
    => /\ ret.value \in BOOLEAN
       /\ ~ret.raised
       /\ ret.value = (IsDateOnly(ret.date) /\ Weekday(ret.date.day) \in 0..4)
       /\ ret.date = DateStr(1) => ret.value = TRUE
       /\ ret.date = DateStr(2) => ret.value = FALSE
       /\ ret.date = InvalidDate => ret.value = FALSE

\* Saturday 2025-10-11 asked without a price file
C17_Witness ==
    /\ ret.op = "is_trading_day"
    /\ ~merged_file_exists
    /\ ret.date = DateStr(2)
    /\ ret.value = FALSE

\* the timestamps of the price file that are strictly earlier than the input,
\* a daily key taken as the midnight of its date
EarlierInStore(lines, today_date) ==
    { ts \in AllTimestamps(lines) : DtLess(ts, today_date) }

\* a timestamp written in the granularity of the input
InGranularityOf(ts, today_date) ==
    IF today_date.time = NoTime THEN [day |-> ts.day, time |-> NoTime]
    ELSE [day |-> ts.day, time |-> Midnight(ts)]

\* C18: when the price file holds a timestamp strictly earlier than the input,
\* get_yesterday_date returns the latest such timestamp, for files keyed by
\* daily dates as for files keyed by date-time stamps, and so a date that is in
\* the file.
C18_PreviousIsLatestInStore ==
    (/\ ret.op = "get_yesterday_date"
     /\ ret.date # InvalidDate
     /\ merged_file_exists
     /\ EarlierInStore(merged_file, ret.date) # {})
    => /\ ret.value = InGranularityOf(LatestOf(EarlierInStore(merged_file, ret.date)),
                                      ret.date)
       /\ \E ts \in AllTimestamps(merged_file) : ts.day = ret.value.day

\* the number of hours from the start of day 0 to a date-time
HourIndex(ts) == 24 * ts.day + ts.time

\* C19: when the price file is missing or holds no timestamp,
\* get_yesterday_date of a date is the nearest earlier calendar date that is
\* not a Saturday or Sunday, and get_yesterday_date of a date-time is the
\* instant one hour earlier; the result has the granularity of the input.
C19_CalendarFallbackOfYesterday ==
    (/\ ret.op = "get_yesterday_date"
     /\ ret.date # InvalidDate
     /\ (~merged_file_exists \/ AllTimestamps(merged_file) = {}))
    => IF ret.date.time = NoTime
       THEN /\ ret.value.time = NoTime
            /\ ret.value.day < ret.date.day
            /\ Weekday(ret.value.day) \notin {5, 6}
            /\ \A e \in (ret.value.day + 1)..(ret.date.day - 1) : Weekday(e) \in {5, 6}
       ELSE /\ ret.value.time \in 0..23
            /\ HourIndex(ret.value) = HourIndex(ret.date) - 1

\* Monday 2025-10-13 asked of a price file whose lines hold no timestamp:
\* the result is Friday 2025-10-10
C19_Witness ==
    /\ ret.op = "get_yesterday_date"
    /\ merged_file_exists
    /\ merged_file # <<>>
    /\ AllTimestamps(merged_file) = {}
    /\ ret.date = DateStr(4)
    /\ ret.value = DateStr(1)

----------------------------------------------------------------------------
(* Properties of the price queries *)

\* the bars the loaded records of the price file hold for a symbol at a
\* timestamp
BarsOf(lines, sym, date) ==
    { lines[i].series[date] :
        i \in { j \in LoadedRecords(lines) :
                  lines[j].symbol = sym /\ date \in DOMAIN lines[j].series } }

IsNumber(v) == v \notin {None, NotNumeric}

\* C20: get_open_prices(date, symbols) holds, for each requested symbol, the
\* opening price of the symbol's bar on date when the file has such a bar with
\* a numeric opening price; it holds None, and never 0, when the bar's opening
\* price is missing or is no number, and no entry at all when the symbol has
\* no bar on date; no other symbol has an entry.
C20_OpenPricesOfRequestedSymbols ==
    ret.op = "get_open_prices"
    => LET prices == ret.value.prices
           bars(sym) == IF merged_file_exists
                        THEN BarsOf(merged_file, sym, ret.date) ELSE {}
       IN  /\ \A sym \in ret.value.symbols :
                /\ bars(sym) = {} => PriceKey(sym) \notin DOMAIN prices
                /\ bars(sym) # {} =>
                     /\ PriceKey(sym) \in DOMAIN prices
                     /\ \A b \in bars(sym) :
                           /\ IsNumber(b.open) => prices[PriceKey(sym)] = b.open
                           /\ ~IsNumber(b.open) => /\ prices[PriceKey(sym)] = None
                                                   /\ prices[PriceKey(sym)] # 0
           /\ DOMAIN prices \subseteq { PriceKey(sym) : sym \in ret.value.symbols }

\* two symbols asked for Monday 2025-10-13, one with a bar without an opening
\* price and one with an opening price that is no number
C20_Witness ==
    /\ ret.op = "get_open_prices"
    /\ ret.date = DateStr(4)
    /\ ret.value.symbols = {"601318.SH", "000001.SZ"}
    /\ DOMAIN ret.value.prices = {PriceKey("601318.SH"), PriceKey("000001.SZ")}
    /\ \A k \in DOMAIN ret.value.prices : ret.value.prices[k] = None

----------------------------------------------------------------------------
(* Properties of the reads of a ledger with a malformed line *)

\* the ledger without its malformed lines
ValidLines(lines) == SelectSeq(lines, LAMBDA l : l.ok)

\* C14: get_latest_position skips a malformed line.  Whatever the queried
\* date and wherever a line that is not JSON stands among the snapshots, the
\* positions and the id returned are those returned for the ledger without
\* that line.
C14_LatestPositionSkipsBadLine ==
    ret.op = "get_latest_position"
    => LET r == get_latest_position(DateStr(ret.date), position_file_exists,
                                    ValidLines(position_file),
                                    merged_file_exists, merged_file)
       IN  ret.positions = r.positions /\ ret.id = r.id

\* a malformed line between two snapshots, dated as the query and the
\* snapshot after it; the result is that snapshot
C14_Witness ==
    /\ ret.op = "get_latest_position"
    /\ Len(position_file) = 3
    /\ position_file[1].ok /\ ~position_file[2].ok /\ position_file[3].ok
    /\ position_file[2].date = ret.date
    /\ position_file[3].date = ret.date
    /\ ret.id = position_file[3].id
    /\ ret.positions = position_file[3].positions

\* C15: every read of the ledger - get_latest_position,
\* get_today_init_position, get_trading_dates and get_position_summary - skips
\* a malformed line and ends with the result it gives without that line; none
\* of them raises because of one bad line.
C15_EveryReadSkipsBadLine ==
    /\ ~ret.raised
    /\ ret.op = "get_latest_position" =>
          LET r == get_latest_position(DateStr(ret.date), position_file_exists,
                                       ValidLines(position_file),
                                       merged_file_exists, merged_file)
          IN  ret.positions = r.positions /\ ret.id = r.id
    /\ ret.op = "get_today_init_position" =>
          ret.positions = get_today_init_position(DateStr(ret.date), position_file_exists,
                                                  ValidLines(position_file))
    /\ (ret.op = "get_trading_dates" /\ ~ret.wrote) =>
          ret.value = get_trading_dates(agent.init_date, ret.date, TRUE,
                                        ValidLines(position_file),
                                        merged_file_exists, merged_file).dates
    /\ ret.op = "get_position_summary" =>
          ret.value = get_position_summary(position_file_exists,
                                           ValidLines(position_file)).summary

----------------------------------------------------------------------------
(* Properties of the driver *)

\* the trading dates of the run on which the trade tool was not called
NoTradeDates == { run.dates[i] : i \in DOMAIN run.dates } \ run.traded

\* C12: one snapshot per processed trading day.  Each no-trade record appends
\* exactly one snapshot, and a run of run_date_range that has processed its
\* trading dates leaves exactly one snapshot dated each date on which the
\* decision-maker made no trade.
C12_OneSnapshotPerNoTradeDay ==
    /\ (ret.op = "_handle_trading_result" /\ ret.wrote)
          => /\ position_file # <<>>
             /\ position_file[Len(position_file)].this_action = NoTradeAction
             /\ position_file[Len(position_file)].date = ret.date
    /\ run.outcome = "completed"
          => \A d \in NoTradeDates : Cardinality(SnapshotsAt(position_file, d)) = 1

----------------------------------------------------------------------------
(* Properties of the price queries over every line of the file *)

\* the bars that the records of sym hold at timestamp ts, over every line
BarsAt(sym, ts) ==
    { merged_file[i].series[ts] :
        i \in { j \in DOMAIN merged_file :
                  /\ merged_file[j].ok /\ merged_file[j].object
                  /\ merged_file[j].symbol = sym
                  /\ ts \in DOMAIN merged_file[j].series } }

\* the two prices read from one bar
BarPrices(bar) ==
    IF bar.open = NotNumeric \/ bar.close = NotNumeric
    THEN [buy |-> None, sell |-> None]
    ELSE [buy |-> ToFloat(bar.open), sell |-> ToFloat(bar.close)]

\* C21: price history is the union over all lines of a symbol.  When any line
\* of a requested symbol holds a bar at the looked-up date, get_open_prices
\* and get_yesterday_open_and_close_price return that bar's prices, whatever
\* the order of the lines and whatever later lines of the symbol lack the date.
C21_PricesAreUnionOverLines ==
    /\ (ret.op = "get_open_prices" /\ ~ret.raised) =>
          \A sym \in ret.value.symbols :
             BarsAt(sym, ret.date) # {} =>
                /\ PriceKey(sym) \in DOMAIN ret.value.prices
                /\ \E bar \in BarsAt(sym, ret.date) :
                      ret.value.prices[PriceKey(sym)] = ToFloat(bar.open)
    /\ (ret.op = "get_yesterday_open_and_close_price" /\ ~ret.raised) =>
          \A sym \in ret.value.symbols :
             BarsAt(sym, ret.value.yesterday_date) # {} =>
                /\ PriceKey(sym) \in DOMAIN ret.value.buy
                /\ PriceKey(sym) \in DOMAIN ret.value.sell
                /\ \E bar \in BarsAt(sym, ret.value.yesterday_date) :
                      /\ ret.value.buy[PriceKey(sym)] = BarPrices(bar).buy
                      /\ ret.value.sell[PriceKey(sym)] = BarPrices(bar).sell

\* the four queries named by the failure policy of the price store
StoreQueries ==
    { "get_open_prices", "get_yesterday_open_and_close_price",
      "get_stock_name_mapping", "get_all_trading_days" }

\* C22: when the price file is absent or cannot be read, get_open_prices,
\* get_yesterday_open_and_close_price, get_stock_name_mapping and
\* get_all_trading_days return an empty mapping or collection and do not
\* raise.
C22_AbsentOrUnreadableGivesEmpty ==
    (ret.op \in StoreQueries /\ (~merged_file_exists \/ ~merged_file_readable)) =>
        /\ ~ret.raised
        /\ ret.op = "get_open_prices" => ret.value.prices = <<>>
        /\ ret.op = "get_yesterday_open_and_close_price" =>
              ret.value.buy = <<>> /\ ret.value.sell = <<>>
        /\ ret.op = "get_stock_name_mapping" => ret.value = <<>>
        /\ ret.op = "get_all_trading_days" => ret.value = <<>>

\* the lines of the price file that are no record, and the file without them
BadLines == { i \in DOMAIN merged_file : ~merged_file[i].ok \/ ~merged_file[i].object }
WithoutBadLines == SelectSeq(merged_file, LAMBDA doc : doc.ok /\ doc.object)

\* C23: a single malformed line of the price file - a line that is not JSON
\* or JSON that is not an object - is skipped: is_trading_day,
\* get_yesterday_date, get_open_prices and get_yesterday_open_and_close_price
\* give the result they give for the file without that line, the lines after
\* it included.
C23_BadPriceLineIsSkipped ==
    (merged_file_exists /\ merged_file_readable /\ Cardinality(BadLines) = 1) =>
        /\ ret.op = "is_trading_day" =>
              ret.value = is_trading_day(ret.date, TRUE, WithoutBadLines)
        /\ (ret.op = "get_yesterday_date" /\ ret.date # InvalidDate) =>
              ret.value = get_yesterday_date(ret.date, TRUE, WithoutBadLines)
        /\ ret.op = "get_open_prices" =>
              ret.value.prices =
                 get_open_prices(ret.date, ret.value.symbols, TRUE, WithoutBadLines)
        /\ ret.op = "get_yesterday_open_and_close_price" =>
              LET yesterday_date ==
                    IF ret.date = InvalidDate THEN ret.value.yesterday_date
                    ELSE get_yesterday_date(ret.date, TRUE, WithoutBadLines)
                  r == get_yesterday_open_and_close_price(
                          yesterday_date, ret.value.symbols, TRUE, WithoutBadLines)
              IN  ret.value.buy = r.buy /\ ret.value.sell = r.sell

----------------------------------------------------------------------------
(* Properties of the settlement arithmetic *)

\* the reference costs of a trade of total value n, in 1/100000 yuan
RefCommission(n) == IF 30 * n > 500000 THEN 30 * n ELSE 500000
RefStampTax(n, direction) == IF direction = "sell" THEN 100 * n ELSE 0
RefTransferFee(n, symbol) == IF EndsWith(symbol, ".SH") THEN n ELSE 0

\* the float that stands for the amount of p/100000 yuan
Yuan(p) == FloatOfDecimal(p, 100000)

\* C24: calculate_trade_cost equals the reference formula on every input:
\* commission = max(price*amount*0.0003, 5.0), stamp_tax = price*amount*0.001
\* for a sell and 0 otherwise, transfer_fee = price*amount*0.00001 for a
\* symbol ending in .SH and 0 otherwise, total_cost their sum; for
\* (600519.SH, 1000, 100, sell) they are 30.0, 100.0, 1.0 and 131.0.
C24_TradeCostIsReferenceFormula ==
    ret.op = "calculate_trade_cost" =>
        LET v == ret.value
            n == v.price * v.amount
            c == RefCommission(n)
            s == RefStampTax(n, v.direction)
            t == RefTransferFee(n, v.symbol)
        IN  /\ v.cost.commission = Yuan(c)
            /\ v.cost.stamp_tax = Yuan(s)
            /\ v.cost.transfer_fee = Yuan(t)
            /\ v.cost.total_cost = Yuan(c + s + t)
            /\ (v.symbol = "600519.SH" /\ v.price = 1000 /\ v.amount = 100
                  /\ v.direction = "sell") =>
                   /\ v.cost.commission = FloatOfInt(30)
                   /\ v.cost.stamp_tax = FloatOfInt(100)
                   /\ v.cost.transfer_fee = FloatOfInt(1)
                   /\ v.cost.total_cost = FloatOfInt(131)

\* the float of (sell - buy) * amount for prices in cents
RefProfit(buy_cents, sell_cents, amount) ==
    [neg |-> sell_cents < buy_cents,
     mag |-> FloatOfDecimal((IF sell_cents < buy_cents THEN buy_cents - sell_cents
                             ELSE sell_cents - buy_cents) * amount, 100)]

\* C25: get_yesterday_profit returns a mapping with a key for every symbol of
\* the symbol list; the value is (close - open) * quantity held when both
\* prices are present and the quantity is positive, and 0.0 otherwise: for a
\* missing open, a missing close, and a quantity that is absent or not
\* positive.
C25_ProfitOfEverySymbol ==
    ret.op = "get_yesterday_profit" =>
        LET v == ret.value
        IN  /\ DOMAIN v.profit = v.stock_symbols
            /\ \A sym \in v.stock_symbols :
                  LET open == Get(v.yesterday_buy_prices, PriceKey(sym), None)
                      close == Get(v.yesterday_sell_prices, PriceKey(sym), None)
                      held == Get(v.yesterday_init_position, sym, 0)
                  IN  v.profit[sym] =
                         IF open # None /\ close # None /\ held > 0
                         THEN RefProfit(open, close, held)
                         ELSE ZeroProfit

\* a call for two symbols: one held with both prices, whose profit of 1.00
\* yuan the unrounded product misses, and one without an opening price
C25_Witness ==
    /\ ret.op = "get_yesterday_profit"
    /\ ret.value.stock_symbols = {"600519.SH", "601318.SH"}
    /\ ret.value.yesterday_buy_prices = ("600519.SH_price" :> 1001)
    /\ ret.value.yesterday_sell_prices =
          ("600519.SH_price" :> 1002) @@ ("601318.SH_price" :> 4533)
    /\ ret.value.yesterday_init_position =
          ("CASH" :> 100000) @@ ("600519.SH" :> 100) @@ ("601318.SH" :> 200)
    /\ ret.value.profit["600519.SH"] = [neg |-> FALSE, mag |-> FloatOfInt(1)]
    /\ ret.value.profit["601318.SH"] = ZeroProfit

----------------------------------------------------------------------------
(* Properties of the runtime configuration *)

\* C26: the runtime configuration tolerates file failures.  get_config_value
\* on a configuration file that is absent or cannot be parsed behaves as with
\* an empty configuration and returns the environment's value or the default;
\* write_config_value whose write of the file fails returns without raising.
C26_ConfigToleratesFileFailures ==
    /\ (ret.op = "get_config_value" /\ LoadRuntimeEnv = <<>>) =>
          /\ ~ret.raised
          /\ ret.value.result = Get(ret.value.environ, ret.value.key, ret.value.default)
    /\ (ret.op = "write_config_value" /\ ~ret.wrote) => ~ret.raised

----------------------------------------------------------------------------
(* Properties of the order of the driver's sessions *)

\* a step that starts the session of a date: the first attempt for it
StartsSession == run'.pc = "session" /\ (run.pc # "session" \/ run'.idx # run.idx)

\* the date whose session is running or being closed
CurrentDate == run.dates[run.idx]

\* C27: run_date_range processes the trading dates one at a time in ascending
\* order.  The session of a date starts only after the session of the date
\* before it has completed, its ledger append included: a session starts from
\* the end of the handling of the date before it, and what is appended to the
\* ledger while a date is current is dated that date.  TODAY_DATE and
\* SIGNATURE are written to the runtime configuration before each date's
\* session; when a date fails after all retries the run ends and no later
\* date is processed.
C27_DatesOneAtATimeInOrder ==
    [][ /\ \A i, j \in DOMAIN run'.dates : i < j => run'.dates[i] < run'.dates[j]
        /\ StartsSession =>
              /\ "TODAY_DATE" \in DOMAIN runtime_env'
              /\ runtime_env'["TODAY_DATE"] = run'.dates[run'.idx]
              /\ "SIGNATURE" \in DOMAIN runtime_env'
              /\ \/ run.pc = "idle" /\ run'.idx = 1
                 \/ /\ run.pc = "handle"
                    /\ run'.dates = run.dates
                    /\ run'.idx = run.idx + 1
        /\ (run.pc = "session" /\ run'.pc = "session" /\ ~StartsSession) =>
              /\ run'.dates = run.dates /\ run'.idx = run.idx
              /\ runtime_env'["TODAY_DATE"] = runtime_env["TODAY_DATE"]
        /\ (run.pc # "idle" /\ position_file' # position_file) =>
              /\ Len(position_file') = Len(position_file) + 1
              /\ IsPrefix(position_file, position_file')
              /\ position_file'[Len(position_file')].date = CurrentDate
        /\ (run.pc # "idle" /\ run'.outcome = "failed") =>
              /\ run.pc = "session" /\ run.attempt = max_retries
              /\ run'.pc = "idle"
      ]_vars

\* a run over three dates: the first completed with its snapshot, the second
\* failed in its last attempt, the third never started
C27_Witness ==
    /\ run.pc = "idle" /\ run.outcome = "failed"
    /\ Len(run.dates) = 3 /\ run.idx = 2 /\ run.attempt = max_retries
    /\ runtime_env["TODAY_DATE"] = run.dates[2]
    /\ SnapshotsAt(position_file, run.dates[1]) # {}
    /\ SnapshotsAt(position_file, run.dates[3]) = {}


----------------------------------------------------------------------------
(* Properties of the reads as functions of the files *)

ReadOps ==
    {"get_latest_position", "get_today_init_position", "is_trading_day",
     "get_yesterday_date", "get_open_prices", "get_yesterday_open_and_close_price",
     "calculate_trade_cost", "get_yesterday_profit"}

\* the arguments of the call a result record stands for
ArgumentsOf(r) ==
    IF r.op \in {"get_open_prices", "get_yesterday_open_and_close_price"}
    THEN <<r.date, r.value.symbols>>
    ELSE IF r.op = "calculate_trade_cost"
    THEN <<r.value.symbol, r.value.price, r.value.amount, r.value.direction>>
    ELSE IF r.op = "get_yesterday_profit"
    THEN <<r.value.yesterday_buy_prices, r.value.yesterday_sell_prices,
           r.value.yesterday_init_position, r.value.stock_symbols>>
    ELSE <<r.date>>

\* C28: the reads and the settlement arithmetic (get_latest_position,
\* get_today_init_position, is_trading_day, get_yesterday_date, the price
\* queries, calculate_trade_cost, get_yesterday_profit) leave the ledger, the
\* price file and the runtime configuration as they were, and a call that
\* follows the same call with the same arguments, nothing written in between,
\* returns the same result.
C28_ReadsChangeNothingAndRepeat ==
    [][ ret'.op \in ReadOps =>
          /\ UNCHANGED <<position_file_exists, position_file, merged_file_exists,
                         merged_file_readable, merged_file, runtime_env, env_file>>
          /\ (ret.op = ret'.op /\ ArgumentsOf(ret) = ArgumentsOf(ret')) => ret' = ret
      ]_vars

----------------------------------------------------------------------------
(* Properties of the decision *)

\* the float c, as the exact number c.m * 2^c.e, is greater than 7/10:
\* 10 * c.m * 2^c.e > 7, compared as integers
AboveSevenTenths(c) ==
    /\ c.m # <<>>
    /\ \/ c.e >= 0
       \/ LessBits(Zeros(-c.e) \o BitsOf(7), MulBits(c.m, 10))

\* C29: make_decision returns status Approved with the analysis result as its
\* recommendation when the confidence is strictly greater than 0.7, and
\* otherwise, at a confidence of exactly 0.7 too, status Rejected with reason
\* 'Low confidence' and no recommendation.
C29_ApprovedIffConfidenceAbove ==
    ret.op = "make_decision" =>
        LET analysis_result == ret.value.analysis_result
            decision == ret.value.decision
        IN  IF AboveSevenTenths(analysis_result.confidence)
            THEN /\ DOMAIN decision = {"status", "recommendation"}
                 /\ decision.status = "Approved"
                 /\ decision.recommendation = analysis_result
            ELSE /\ DOMAIN decision = {"status", "reason"}
                 /\ decision.status = "Rejected"
                 /\ decision.reason = "Low confidence"

\* the decision at a confidence of exactly 0.7
C29_Witness ==
    /\ ret.op = "make_decision"
    /\ ret.value.analysis_result.confidence = FloatOfDecimal(70, 100)
    /\ ret.value.decision.status = "Rejected"

----------------------------------------------------------------------------
(* Properties of a session of an agent that is not initialised *)

\* C30: run_trading_session called while the model, the tools or the client
\* is missing fails with RuntimeError before any side effect: no log
\* directory is created, the agent is neither created nor invoked, nothing is
\* appended to the ledger and the runtime configuration is not written.
C30_UninitialisedSessionFailsFirst ==
    [][ (ret'.op = "run_trading_session" /\
         (~agent.model \/ agent.tools \in {"None", "empty"} \/ ~agent.client)) =>
            /\ ret'.raised /\ ret'.value = "RuntimeError"
            /\ agent'.log_dirs = agent.log_dirs
            /\ agent'.agent = agent.agent /\ agent'.invoked = agent.invoked
            /\ position_file' = position_file
            /\ position_file_exists' = position_file_exists
            /\ runtime_env' = runtime_env /\ env_file' = env_file
      ]_vars

\* the session of an agent whose initialize failed at the model, after the
\* client and the tools were set
C30_Witness ==
    /\ ret.op = "run_trading_session" /\ ret.raised /\ ret.value = "RuntimeError"
    /\ agent.client /\ agent.tools = "loaded" /\ ~agent.model
    /\ agent.log_dirs = {} /\ ~agent.agent
    /\ ~position_file_exists

----------------------------------------------------------------------------
(* Properties of the retries *)

\* the sleeps after the failed attempts 1 .. n
DelaysAfter(n) == [k \in 1..n |-> agent.base_delay * k]

\* C31: _ainvoke_with_retry invokes the agent at most max_retries times; it
\* returns the response of the first attempt that succeeds, with no attempt
\* after it; between a failed attempt and the next it waits base_delay *
\* attempt; after the failure of attempt max_retries it raises the exception
\* of that attempt; and it always terminates.
C31_BoundedRetriesThatEnd ==
    /\ [](/\ run.invoked <= agent.max_retries
          /\ Len(run.errors) <= run.invoked
          /\ run.pc = "done" =>
               /\ ret.op = "_ainvoke_with_retry"
               /\ (ret.raised /\ agent.agent) =>
                     /\ run.invoked = agent.max_retries
                     /\ Len(run.errors) = agent.max_retries
                     /\ ret.value = run.errors[agent.max_retries]
                     /\ ret.value.attempt = agent.max_retries
                     /\ run.waited = DelaysAfter(agent.max_retries - 1)
               /\ (~ret.raised /\ run.invoked > 0) =>
                     /\ ret.value = Response(run.invoked)
                     /\ Len(run.errors) = run.invoked - 1
                     /\ \A k \in 1..Len(run.errors) : run.errors[k].attempt = k
                     /\ run.waited = DelaysAfter(run.invoked - 1)
               /\ (~ret.raised /\ run.invoked = 0) => agent.max_retries = 0)
    /\ (run.pc = "call" ~> run.pc = "done")

\* the third attempt of three fails after two failures and two sleeps
C31_Witness ==
    /\ run.pc = "done" /\ ret.raised
    /\ agent.max_retries = 3 /\ agent.base_delay = 1
    /\ run.invoked = 3 /\ run.waited = <<1, 2>>
    /\ ret.value = Raised("TimeoutError", 3)
    /\ run.errors[1].type = "AttributeError"

\* a step of the session raised: the session has failed
SessionFails == run.pc = "session" /\ ret'.op = "agent_step" /\ ret'.raised

\* C32: run_with_retry runs at most max_retries sessions for its date (the
\* attempt counts them); after the first session that completes without an
\* exception it returns and no further session of the date is run; it raises
\* exactly when the session of attempt max_retries has failed, all sessions
\* before it having failed too.
C32_AtMostMaxRetriesSessions ==
    [][ /\ run'.pc # "idle" => run'.attempt \in 1..max_retries
        /\ SessionFails =>
              IF run.attempt = max_retries
              THEN run'.pc = "idle" /\ run'.outcome = "failed"
              ELSE /\ run'.pc = "session" /\ run'.outcome = "running"
                   /\ run'.dates = run.dates /\ run'.idx = run.idx
                   /\ run'.attempt = run.attempt + 1
        /\ run.pc = "handle" =>
              /\ run'.outcome # "failed"
              /\ \/ run'.pc = "idle" /\ run'.outcome = "completed"
                 \/ run'.pc = "session" /\ run'.idx = run.idx + 1 /\ run'.attempt = 1
        /\ (run.pc = "session" /\ ~SessionFails) =>
              /\ run'.outcome = "running" /\ run'.attempt = run.attempt
              /\ run'.idx = run.idx
        /\ (run.pc # "idle" /\ run'.outcome = "failed") =>
              SessionFails /\ run.attempt = max_retries
      ]_vars

\* the second session of a date has completed after the first failed
C32_Witness ==
    /\ run.pc = "handle" /\ run.attempt = 2 /\ run.idx = 1
    /\ ret.op = "agent_step" /\ ~ret.raised

\* a pass of the step loop: the call of the agent and what followed it
AgentCall == run.pc = "session" /\ ret'.op = "agent_step"

\* C33: within one session the step loop calls the agent at most max_steps
\* times and ends at the first response with the stop signal; when the loop
\* has ended without an exception, by the stop signal or after max_steps
\* calls, _handle_trading_result runs exactly once; it does not run when a
\* step raised.
C33_StepLoopThenOneHandling ==
    [][ /\ run'.step \in 0..max_steps
        /\ (AgentCall /\ ~ret'.raised) =>
              /\ run.step < max_steps /\ run'.step = run.step + 1
              /\ IF ret'.value = "stop" \/ run'.step = max_steps
                 THEN run'.pc = "handle"
                 ELSE run'.pc = "session" /\ run'.attempt = run.attempt
        /\ (AgentCall /\ ret'.raised) =>
              /\ run'.pc \in {"session", "idle"}
              /\ run'.pc = "session" => run'.step = 0 /\ run'.attempt = run.attempt + 1
              /\ position_file' = position_file /\ runtime_env' = runtime_env
        /\ ret'.op = "_handle_trading_result" => run.pc = "handle"
        /\ run.pc = "handle" =>
              /\ ret'.op = "_handle_trading_result"
              /\ run'.pc # "handle" /\ (run'.pc = "session" => run'.step = 0)
      ]_vars

\* the loop has ended at its first pass, by the stop signal
C33_Witness ==
    /\ run.pc = "handle" /\ run.step = 1 /\ run.step < max_steps
    /\ ret.op = "agent_step" /\ ret.value = "stop"

----------------------------------------------------------------------------
(* Properties of the trade flag *)

\* a session begins: the first of a run, the next attempt of a date, or the
\* session of the next date
SessionBegins ==
    /\ run'.pc = "session"
    /\ run.pc # "session" \/ run'.attempt # run.attempt \/ run'.idx # run.idx

\* the step appends one no_trade snapshot dated d
AppendsNoTrade(d) ==
    /\ Len(position_file') = Len(position_file) + 1
    /\ IsPrefix(position_file, position_file')
    /\ position_file'[Len(position_file')].date = d
    /\ position_file'[Len(position_file')].this_action = NoTradeAction

\* C34: _handle_trading_result appends a no_trade snapshot for the date
\* exactly when IF_TRADE is false or absent as it runs, and leaves IF_TRADE
\* false in both branches; so no session begins with IF_TRADE still set by
\* the session before it.
C34_FlagClearedBetweenSessions ==
    [][ /\ ret'.op = "_handle_trading_result" =>
              /\ IF if_trade(runtime_env)
                 THEN position_file' = position_file
                 ELSE AppendsNoTrade(CurrentDate)
              /\ "IF_TRADE" \in DOMAIN runtime_env'
              /\ runtime_env'["IF_TRADE"] = FALSE
        /\ SessionBegins => ~if_trade(runtime_env')
      ]_vars

----------------------------------------------------------------------------
(* Properties of the list of dates of a run *)

\* the greatest date of the ledger the call finds, or init_date when the
\* file is missing (and is registered by the call) or empty
MaxLedgerDate ==
    LET dates == { position_file[i].date : i \in DOMAIN position_file }
    IN  IF position_file_exists /\ dates # {}
        THEN CHOOSE d \in dates : \A e \in dates : e <= d
        ELSE agent.init_date

\* C35: get_trading_dates(init_date, end_date) returns, ascending and without
\* duplicates, exactly the dates d with max_ledger_date < d <= end_date for
\* which is_trading_day(d) holds; the list is empty when end_date <=
\* max_ledger_date, and no date of it has a snapshot already.
C35_DatesAfterTheLedger ==
    [][ (run.pc = "idle" /\ ret'.op = "run_date_range") =>
          LET end_date == ret'.date
              dates == ret'.value
              expected == { d \in Days :
                              /\ MaxLedgerDate < d /\ d <= end_date
                              /\ is_trading_day(DateStr(d), merged_file_exists,
                                                merged_file) }
          IN  /\ ~ret'.raised
              /\ \A i, j \in DOMAIN dates : i < j => dates[i] < dates[j]
              /\ { dates[i] : i \in DOMAIN dates } = expected
              /\ end_date <= MaxLedgerDate => dates = <<>>
              /\ \A i \in DOMAIN dates : SnapshotsAt(position_file', dates[i]) = {}
      ]_vars

\* a second run: the ledger ends with a snapshot of day 2 and the run to day
\* 4 lists the days 3 and 4
C35_Witness ==
    /\ ret.op = "run_date_range" /\ ret.date = 4 /\ ret.value = <<3, 4>>
    /\ agent.init_date = 1
    /\ SnapshotsAt(position_file, 2) # {}
    /\ run.pc = "session" /\ run.idx = 1 /\ run.step = 0 /\ run.attempt = 1

----------------------------------------------------------------------------
(* Properties of the snapshots a session leaves *)

\* C36: a session that completes without an exception for a date leaves at
\* least one snapshot of that date in the ledger, a trade's or a no_trade
\* one, whatever happened in the sessions and attempts before it.
C36_CompletedSessionLeavesSnapshot ==
    [][ ret'.op = "_handle_trading_result" =>
            SnapshotsAt(position_file', CurrentDate) # {}
      ]_vars

\* the number of no_trade snapshots in a ledger
NoTradeCount(lines) ==
    Cardinality({ i \in 1..Len(lines) : lines[i].ok /\ lines[i].this_action = NoTradeAction })

\* C37: one call of run_with_retry for a date appends at most one no_trade
\* snapshot: a step of the call that raises appends nothing, and the step
\* that appends the no_trade snapshot is the normal end of the call's last
\* attempt (the driver goes on to the next date or the run is over).
C37_OneNoTradeSnapshotPerCall ==
    [][ run.pc \in {"session", "handle"} =>
          /\ ret'.raised => position_file' = position_file
          /\ NoTradeCount(position_file') # NoTradeCount(position_file) =>
                /\ AppendsNoTrade(CurrentDate)
                /\ ret'.op = "_handle_trading_result" /\ ~ret'.raised
                /\ \/ run'.pc = "idle" /\ run'.outcome = "completed"
                   \/ run'.pc = "session" /\ run'.idx = run.idx + 1 /\ run'.attempt = 1
      ]_vars

\* the second attempt of a date, after a first that raised, has ended
\* normally and appended the no_trade snapshot of the date
C37_Witness ==
    /\ ret.op = "_handle_trading_result" /\ ret.wrote /\ ~ret.raised
    /\ run.pc = "idle" /\ run.outcome = "completed" /\ run.attempt = 2
    /\ position_file # <<>>
    /\ position_file[Len(position_file)].date = ret.date
    /\ position_file[Len(position_file)].this_action = NoTradeAction
    /\ NoTradeCount(position_file) = 1

----------------------------------------------------------------------------
(* Properties of the shared runtime configuration *)

\* both calls of write_config_value have returned
BothWritten == \A p \in Writers : run.pc[p] = "done"

\* C38: when the driver's write_config_value(k1, v1) and the tools module's
\* write_config_value(k2, v2), k1 # k2, have both returned, in whatever
\* order their steps ran, the file holds k1 = v1 and k2 = v2 and every
\* other key as it was before.
C38_NoLostUpdate ==
    BothWritten =>
        /\ env_file.parsable
        /\ \A p \in Writers :
              /\ run.key[p] \in DOMAIN runtime_env
              /\ runtime_env[run.key[p]] = run.value[p]
        /\ \A k \in (DOMAIN runtime_env \cup DOMAIN run.before) \ {run.key[p] : p \in Writers} :
              /\ k \in DOMAIN runtime_env /\ k \in DOMAIN run.before
              /\ runtime_env[k] = run.before[k]

----------------------------------------------------------------------------
(* Properties that relate the ledger's operations *)

\* the last line of a ledger
LastLine(lines) == lines[Len(lines)]

\* C39: right after add_no_trade_record(D), on any ledger,
\* get_latest_position(D) returns the positions and the id of the snapshot
\* just written, and a second add_no_trade_record(D) would write the same
\* positions under that id plus 1.
C39_ReadYourWrite ==
    [][ ret'.op = "add_no_trade_record" =>
          LET today_date == DateStr(ret'.date)
              written == LastLine(position_file')
              latest == get_latest_position(today_date, position_file_exists',
                                            position_file', merged_file_exists', merged_file')
              second == NoTradeItem(today_date, position_file_exists', position_file',
                                    merged_file_exists', merged_file')
          IN  /\ Len(position_file') = Len(position_file) + 1
              /\ written.date = ret'.date /\ written.this_action = NoTradeAction
              /\ latest.positions = written.positions
              /\ latest.id = written.id
              /\ second.positions = written.positions
              /\ second.id = written.id + 1
              /\ second.date = written.date
      ]_vars

\* a second no_trade snapshot of a date has been appended right after the
\* first, on a ledger that also holds a snapshot of a later date
C39_Witness ==
    /\ ret.op = "add_no_trade_record"
    /\ Len(position_file) >= 3
    /\ LET written == LastLine(position_file)
           first == position_file[Len(position_file) - 1]
       IN  /\ written.date = ret.date /\ written.this_action = NoTradeAction
           /\ first.date = ret.date /\ first.this_action = NoTradeAction
           /\ written.id = first.id + 1
           /\ written.positions = first.positions
    /\ \E j \in 1..(Len(position_file) - 2) : position_file[j].date > ret.date

\* C40: for a date of which the ledger holds no snapshot,
\* get_latest_position and get_today_init_position return the same
\* positions, those of the newest snapshot before the date in (date, id)
\* order, whatever dates the earlier snapshots have.
C40_LatestIsInitWithoutSnapshot ==
    \A d \in Days :
        SnapshotsAt(position_file, d) = {} =>
            LET latest == get_latest_position(DateStr(d), position_file_exists, position_file,
                                              merged_file_exists, merged_file)
                init == get_today_init_position(DateStr(d), position_file_exists, position_file)
                before == StrictlyBefore(position_file, DateStr(d))
            IN  /\ latest.positions = init
                /\ init = IF ~position_file_exists \/ before = {} THEN EmptyPositions
                          ELSE position_file[NewestIndex(position_file, before)].positions

====
